---- MODULE Spec2Model ----
(***************************************************************************)
(* A model of TD_SOUND (SoundEngine.h): the MML parser, the Voice /        *)
(* Maestro playback state machines and the Venue queue that the audio      *)
(* callback drives.                                                        *)
(*                                                                         *)
(* Units.  Time is counted in ticks of 1/2048 s: the default AR envelope's *)
(* attack and release, 240/(64*256)*0.1 s, are exactly 3 ticks, and every  *)
(* length 240/(n*tempo) the model's inputs produce is a whole number of    *)
(* ticks, so the integer arithmetic below is the double arithmetic of the  *)
(* code (all values are dyadic rationals, which doubles hold exactly).     *)
(* Volume is counted in 1/200 (0.125 = 25, n/100 = 2n), envelope gain in   *)
(* 1/GainOne, oscillator output in 1/OscOne, and a Maestro's mean in       *)
(* 1/ChoirOne of a Voice's unit so that the division by the number of      *)
(* voices is exact.                                                        *)
(***************************************************************************)
EXTENDS Integers, Sequences, FiniteSets, TLC

VARIABLES
    program,       \* Venue::program, the list of queued Maestros
    stopPlaying,   \* Venue::stopPlaying
    looping,       \* Venue::looping
    internalTime,  \* Venue::internalTime in ticks, -1 = not started
    hollaback,     \* Venue::hollaback, the idle callback (a record, see Hollabacks)
    nextId,        \* history: the number of Maestros enqueued so far, plus 1
    last,          \* history: what the last operation did and returned
    tune,          \* history: the music of a playback at a fixed rate
    step,          \* the timeDelta of that playback (0 = none)
    trace,         \* history of such a playback: [at, ret] of every getSample call
    voice,         \* a Voice played on its own
    now,           \* the time of the last Voice::play call on it, -1 = none
    heard,         \* history: what that call returned, and the notes it summed
    audio,         \* the audio thread's place in getSample ("idle" = outside)
    control,       \* the control thread's place in queueMusic ("idle" = outside)
    building,      \* the Maestro that queueMusic is inserting
    doomed,        \* history: ids of the Maestros enqueued before a clearQueue call
    due,           \* history: doomed when the current getSample call started
    raced,         \* history: both threads were inside the queue at once
    score,         \* history: the lines a Maestro played on its own was built from
    solo,          \* a Maestro played on its own
    beat,          \* the time of the last Maestro::play call on it, -1 = none
    sung,          \* history: what that call returned, and what every voice gave
    parse,         \* the locals of buildVoiceFromString between two commands
    setup,         \* history: the arguments buildVoiceFromString was called with
    wave,          \* a run of MakeWave or of the player: the file, the voices read, the loop
    tone,          \* an envelope on its own: the note's duration, the time and gain asked last
    twin           \* a Voice and a copy of it: the two Voices, and whose notes the copy's
                   \* active set points to

venueVars == <<program, stopPlaying, looping, internalTime, hollaback>>
playVars == <<tune, step, trace>>
voiceVars == <<voice, now, heard>>
concVars == <<audio, control, building, doomed, due, raced>>
choirVars == <<score, solo, beat, sung>>
parseVars == <<parse, setup>>
renderVars == <<wave>>
envelopeVars == <<tone>>
copyVars == <<twin>>
vars == <<program, stopPlaying, looping, internalTime, hollaback, nextId, last,
          tune, step, trace, voice, now, heard,
          audio, control, building, doomed, due, raced,
          score, solo, beat, sung, parse, setup, wave, tone, twin>>

-----------------------------------------------------------------------------
(* Bounds of the model. *)

\* the longest queue queueMusic is tried on
MaxQueue == 2
\* the number of Maestros enqueued in one behaviour (history ids are 1..MaxEnqueued)
MaxEnqueued == 3
\* the number of getSample calls of a playback at a fixed rate
MaxCalls == 14
\* the last time a Voice on its own is played at, in ticks
MaxTime == 40

-----------------------------------------------------------------------------
(* Scales. *)

\* static const int notesPerOctave / octavesImplemented / totalNotes
notesPerOctave == 12
octavesImplemented == 9
totalNotes == notesPerOctave * octavesImplemented

\* ticks per second: AREnvelope's lengths 240.0 / (64 * 256) * 0.1 s are 3 ticks
TicksPerSecond == (3 * 64 * 256 * 10) \div 240
\* 1.0 as a volume
VolOne == 2 * 100
\* 1.0 as an oscillator output: the resolution of the phase within half a period
OscOne == TicksPerSecond
\* 1.0 as an envelope gain: attackLength * releaseLength of the default AR envelope
GainOne == 3 * 3
\* the largest choir whose mean is exact, and 1.0 of a Voice in Maestro units
MaxChoir == 2
RECURSIVE Factorial(_)
Factorial(n) == IF n <= 1 THEN 1 ELSE n * Factorial(n - 1)
ChoirOne == Factorial(MaxChoir)
\* 1.0 as a sample of Voice::play, and of Maestro::play / Venue::getSample
VoiceOne == VolOne * GainOne * OscOne
SampleOne == VoiceOne * ChoirOne

Abs(x) == IF x < 0 THEN -x ELSE x
Min(a, b) == IF a < b THEN a ELSE b

\* F applied to the value of e: a local whose value is computed once
With(e, F(_)) == CHOOSE r \in {F(v) : v \in {e}} : TRUE

-----------------------------------------------------------------------------
(* Oscillators, envelopes, instruments. *)

\* the phase frequency * time within one period, in 1/(2 * TicksPerSecond) of a
\* period; frequency is in 1/2 Hz (A0 = 27.5 Hz = 55), time in ticks
Phase(frequency, time) == (frequency * time) % (2 * TicksPerSecond)

\* squareWave: copysign(1.0, sin(frequency * 2 pi * time)): the sine is
\* non-negative on the first half of the period
squareWave(frequency, time) ==
    IF Phase(frequency, time) < TicksPerSecond THEN OscOne ELSE -OscOne

\* sineWave: sin(frequency * 2 pi * time), by Bhaskara's rational approximation
\* sin(pi u) ~ 16 u (1 - u) / (5 - 4 u (1 - u)) on each half period (the sine is
\* transcendental; the approximation keeps its sign, zeros, peaks and range)
sineWave(frequency, time) ==
    LET p == Phase(frequency, time)
        h == p % TicksPerSecond
        q == h * (TicksPerSecond - h)
        v == (((16 * q) \div 64) * OscOne) \div ((5 * TicksPerSecond * TicksPerSecond - 4 * q) \div 64)
    IN  IF p < TicksPerSecond THEN v ELSE -v

\* triangularWave: asin(sin(frequency * 2 pi * time)) / (pi / 2)
triangularWave(frequency, time) ==
    LET p == Phase(frequency, time)
    IN  IF 2 * p <= TicksPerSecond THEN (2 * p * OscOne) \div TicksPerSecond
        ELSE IF 2 * p <= 3 * TicksPerSecond
             THEN ((2 * TicksPerSecond - 2 * p) * OscOne) \div TicksPerSecond
             ELSE ((2 * p - 4 * TicksPerSecond) * OscOne) \div TicksPerSecond

\* sawWave: 2.0 * (Time - floor(Time + .5)), Time = frequency * time
sawWave(frequency, time) ==
    LET p == Phase(frequency, time)
    IN  IF p < TicksPerSecond THEN (p * OscOne) \div TicksPerSecond
        ELSE ((p - 2 * TicksPerSecond) * OscOne) \div TicksPerSecond

\* noise: 1.0 - 2.0 * (hash(frequency * 2 pi * time) / SIZE_MAX): a fixed function
\* of frequency * time with values in [-1, 1] (std::hash is implementation
\* defined; a multiplicative congruence stands for it)
noise(frequency, time) ==
    LET h == (((frequency * time) % 65537) * 75 + 74) % 65537
    IN  OscOne - (2 * OscOne * (h % 1025)) \div 1024

\* rectangularWave: 1.0 while the phase is within duty (in 1/100) of the period
rectangularWave(frequency, time, duty) ==
    IF Phase(frequency, time) * 100 <= duty * 2 * TicksPerSecond THEN OscOne ELSE -OscOne

\* Oscillator::note, dispatching on the implementation
OscillatorNote(oscillator, frequency, time) ==
    CASE oscillator.kind = "square"   -> squareWave(frequency, time)
      [] oscillator.kind = "sine"     -> sineWave(frequency, time)
      [] oscillator.kind = "triangle" -> triangularWave(frequency, time)
      [] oscillator.kind = "saw"      -> sawWave(frequency, time)
      [] oscillator.kind = "noise"    -> noise(frequency, time)
      [] oscillator.kind = "rect"     -> rectangularWave(frequency, time, oscillator.duty)

\* AREnvelope() : attackPeak(1.0), attackLength(3 ticks), releaseLength(3 ticks)
AREnvelope == [kind |-> "AR", attackPeak |-> 1, attackLength |-> 3, releaseLength |-> 3]

\* AREnvelope::loud, in 1/GainOne
ARLoud(env, time, releaseTime) ==
    LET unit == GainOne \div (env.attackLength * env.releaseLength)
    IN  IF releaseTime = -1
        THEN IF time < env.attackLength
             THEN time * env.attackPeak * env.releaseLength * unit
             ELSE env.attackPeak * env.attackLength * env.releaseLength * unit
        ELSE (IF releaseTime < env.attackLength
              THEN time * env.attackPeak
              ELSE env.attackPeak * env.attackLength)
             * (releaseTime + env.releaseLength - time) * unit

\* Envelope::loud and Envelope::release
EnvelopeLoud(envelope, time, releaseTime) ==
    CASE envelope.kind = "AR" -> ARLoud(envelope, time, releaseTime)

EnvelopeRelease(envelope) == envelope.releaseLength

\* Instrument::note, in 1/(GainOne * OscOne), and Instrument::release
InstrumentNote(instrument, frequency, time, releaseTime) ==
    EnvelopeLoud(instrument.envelope, time, releaseTime)
        * OscillatorNote(instrument.oscillator, frequency, time)

InstrumentRelease(instrument) == EnvelopeRelease(instrument.envelope)

\* Instrument::make...Instrument: the oscillator with the default AR envelope
\* (every oscillator record has a duty field so that instruments are comparable)
makeInstrument(kind, duty) ==
    [oscillator |-> [kind |-> kind, duty |-> duty], envelope |-> AREnvelope]

makeSquareWaveInstrument == makeInstrument("square", 0)
makeTriangularWaveInstrument == makeInstrument("triangle", 0)
makeSineWaveInstrument == makeInstrument("sine", 0)
makeSawWaveInstrument == makeInstrument("saw", 0)
makeNoiseInstrument == makeInstrument("noise", 0)
makeRectangularWaveInstrument(dutyCycle) == makeInstrument("rect", dutyCycle)

-----------------------------------------------------------------------------
(* Note. *)

\* Note::Note
NewNote(instrument, frequency, startTime, duration, volume) ==
    [instrument |-> instrument, frequency |-> frequency, startTime |-> startTime,
     duration |-> duration, volume |-> volume]

\* Note::before, Note::after, Note::play (in 1/VoiceOne)
NoteBefore(note, time) == time < note.startTime

\* the end of the window of a note
NoteEnd(note) == note.startTime + note.duration + InstrumentRelease(note.instrument)

\* a note that is over as soon as it is released
NoteAfterHold(note, time) == time > note.startTime + note.duration

NoteAfter(note, time) == time > NoteEnd(note)

\* a note that is never released
NotePlayHeld(note, time) ==
    note.volume * InstrumentNote(note.instrument, note.frequency, time - note.startTime, -1)

NotePlay(note, time) ==
    LET noteTime == time - note.startTime
    IN  note.volume * InstrumentNote(note.instrument, note.frequency, noteTime,
                                     IF noteTime < note.duration THEN -1 ELSE note.duration)

-----------------------------------------------------------------------------
(* Voice.  index is the C++ index (0-based); activeNotes holds, for every   *)
(* Note* of the list, the position in notes it points to (0-based).         *)

\* Voice::Voice(notes)
NewVoice(notes) == [notes |-> notes, index |-> 0, activeNotes |-> <<>>]

\* Voice::playActive
RECURSIVE SumActive(_, _, _)
SumActive(v, time, k) ==
    IF k > Len(v.activeNotes) THEN 0
    ELSE NotePlay(v.notes[v.activeNotes[k] + 1], time) + SumActive(v, time, k + 1)

VoicePlayActive(v, time) == SumActive(v, time, 1)

\* Voice::endPlay: play what is active, then drop the notes that are over
\* (summed is history: the active notes that were played)
VoiceEndPlay(v, time) ==
    [sample |-> VoicePlayActive(v, time),
     voice  |-> [v EXCEPT !.activeNotes =
                    SelectSeq(v.activeNotes, LAMBDA p : ~NoteAfter(v.notes[p + 1], time))],
     summed |-> v.activeNotes]

\* Voice::play, first loop: skip all passed notes
RECURSIVE SkipPassed(_, _, _)
SkipPassed(notes, index, time) ==
    IF index < Len(notes) /\ NoteAfter(notes[index + 1], time)
    THEN SkipPassed(notes, index + 1, time)
    ELSE index

\* a last loop that activates one note only
ActivateOne(v, time) ==
    IF v.index < Len(v.notes) /\ ~NoteBefore(v.notes[v.index + 1], time)
    THEN [v EXCEPT !.activeNotes = Append(@, v.index), !.index = @ + 1]
    ELSE v

\* Voice::play, last loop: activate every note that has started
RECURSIVE Activate(_, _)
Activate(v, time) ==
    IF v.index < Len(v.notes) /\ ~NoteBefore(v.notes[v.index + 1], time)
    THEN Activate([v EXCEPT !.activeNotes = Append(@, v.index),
                                !.index = @ + 1], time)
    ELSE v

\* Voice::play: [sample, voice]
VoicePlay(v, time) ==
    With([v EXCEPT !.index = SkipPassed(v.notes, v.index, time)], LAMBDA skipped :
        IF skipped.index = Len(skipped.notes)
        THEN VoiceEndPlay(skipped, time)
        ELSE IF NoteBefore(skipped.notes[skipped.index + 1], time)
             THEN VoiceEndPlay(skipped, time)
             ELSE VoiceEndPlay(Activate(skipped, time), time))

\* Voice::finished, Voice::loop
VoiceFinished(v) == v.index = Len(v.notes) /\ Len(v.activeNotes) = 0

\* a loop that leaves the active notes in the list
VoiceLoopKeepsActive(v) == [v EXCEPT !.index = 0]

\* a loop that leaves the cursor at the end
VoiceLoopKeepsIndex(v) == [v EXCEPT !.activeNotes = <<>>]

VoiceLoop(v) == [v EXCEPT !.index = 0, !.activeNotes = <<>>]

-----------------------------------------------------------------------------
(* Maestro.  id is history: the order of arrival in the Venue (0 = none).   *)

\* Maestro::Maestro(const std::vector<Voice>&)
NewMaestro(choir) == [choir |-> choir, id |-> 0]

\* Maestro::play: every voice is played, the sum is divided by choir.size()
RECURSIVE PlayChoir(_, _, _)
PlayChoir(choir, time, k) ==
    IF k > Len(choir) THEN [sum |-> 0, choir |-> <<>>]
    ELSE With(VoicePlay(choir[k], time), LAMBDA one :
         With(PlayChoir(choir, time, k + 1), LAMBDA rest :
             [sum |-> one.sample + rest.sum, choir |-> <<one.voice>> \o rest.choir]))

\* a mean over the voices that are still playing
MaestroPlayLive(maestro, time) ==
    With(PlayChoir(maestro.choir, time, 1), LAMBDA played :
    With(Len(SelectSeq(maestro.choir, LAMBDA v : ~VoiceFinished(v))), LAMBDA live :
        [sample  |-> IF live # 0 THEN (played.sum * ChoirOne) \div live ELSE 0,
         maestro |-> [maestro EXCEPT !.choir = played.choir]]))

MaestroPlay(maestro, time) ==
    IF Len(maestro.choir) # 0
    THEN With(PlayChoir(maestro.choir, time, 1), LAMBDA played :
             [sample  |-> (played.sum * ChoirOne) \div Len(maestro.choir),
              maestro |-> [maestro EXCEPT !.choir = played.choir]])
    ELSE [sample |-> 0, maestro |-> maestro]

\* a Maestro that is finished only when it has no voice
MaestroEmpty(maestro) == Len(maestro.choir) = 0

\* Maestro::finished, Maestro::loop
MaestroFinished(maestro) ==
    \A k \in 1..Len(maestro.choir) : VoiceFinished(maestro.choir[k])

MaestroLoop(maestro) ==
    [maestro EXCEPT !.choir = [k \in 1..Len(maestro.choir) |-> VoiceLoop(maestro.choir[k])]]

-----------------------------------------------------------------------------
(* The pitch table.  Frequencies are in 1/2 Hz, so that every A (27.5 Hz    *)
(* times a power of two) is exact; the other eleven semitones are the       *)
(* irrational A * 2^(k/12), rounded down to 1/2 Hz.                         *)

\* static const double A440 = 440.0
A440 == 2 * 440

\* pow(2, k / 12.0) for k = 1..9, times 10000
Pow2Twelfths == <<10595, 11225, 11892, 12599, 13348, 14142, 14983, 15874, 16818>>

\* generateTwelveToneEqual: entry n (0-based) of the table for reference pitch
\* AAboveMiddleC; A is AAboveMiddleC / 16, doubled once per octave
RECURSIVE Pow2(_)
Pow2(n) == IF n = 0 THEN 1 ELSE 2 * Pow2(n - 1)

\* a table whose lowest A is an eighth of the reference pitch
TwelveToneEntryFromEighth(AAboveMiddleC, n) ==
    LET O == n \div notesPerOctave
        k == n % notesPerOctave
        A == (AAboveMiddleC * Pow2(O)) \div 8
    IN  IF k < 9 THEN (A * 10000) \div Pow2Twelfths[9 - k]
        ELSE IF k = 9 THEN A
        ELSE (A * Pow2Twelfths[k - 9]) \div 10000

TwelveToneEntry(AAboveMiddleC, n) ==
    LET O == n \div notesPerOctave
        k == n % notesPerOctave
        A == (AAboveMiddleC * Pow2(O)) \div 16
    IN  IF k < 9 THEN (A * 10000) \div Pow2Twelfths[9 - k]
        ELSE IF k = 9 THEN A
        ELSE (A * Pow2Twelfths[k - 9]) \div 10000

generateTwelveToneEqual(AAboveMiddleC) ==
    [n \in 1..totalNotes |-> TwelveToneEntry(AAboveMiddleC, n - 1)]

\* getStandardTwelveToneEqualNotes
StandardNotes == generateTwelveToneEqual(A440)

\* makeDefaultInstrument / getDefaultInstrument: the map { '\0' -> square wave }
NUL == ""
DefaultInstrument == [c \in {NUL} |-> makeSquareWaveInstrument]

-----------------------------------------------------------------------------
(* StringProcessor.  A line is a sequence of one-character strings;         *)
(* location is the C++ index (0-based).  overrun records that getNextChar   *)
(* was called with location already at the end of the input: the code then  *)
(* reads input[location] past the end, which is undefined.  overflow        *)
(* records that getNumber left the range of int, which is undefined too.    *)

LowerCase == <<"a", "b", "c", "d", "e", "f", "g", "h", "i", "j", "k", "l", "m",
               "n", "o", "p", "q", "r", "s", "t", "u", "v", "w", "x", "y", "z">>
UpperCase == <<"A", "B", "C", "D", "E", "F", "G", "H", "I", "J", "K", "L", "M",
               "N", "O", "P", "Q", "R", "S", "T", "U", "V", "W", "X", "Y", "Z">>
Digits == <<"0", "1", "2", "3", "4", "5", "6", "7", "8", "9">>

\* a reader that takes the letters as they are written
AsWritten(c) == c

\* std::toupper, std::isspace
toupper(c) ==
    IF \E i \in 1..Len(LowerCase) : LowerCase[i] = c
    THEN UpperCase[CHOOSE i \in 1..Len(LowerCase) : LowerCase[i] = c]
    ELSE c

isspace(c) == c \in {" ", "\t", "\n", "\r"}

IsDigit(c) == \E i \in 1..Len(Digits) : Digits[i] = c
DigitValue(c) == (CHOOSE i \in 1..Len(Digits) : Digits[i] = c) - 1

\* StringProcessor::getNextChar: [location, result, overrun]
RECURSIVE getNextChar(_, _)
getNextChar(input, location) ==
    LET next == location + 1
    IN  IF next = Len(input) THEN [location |-> next, result |-> NUL, overrun |-> FALSE]
        ELSE IF next > Len(input) THEN [location |-> next, result |-> NUL, overrun |-> TRUE]
        ELSE IF ~isspace(input[next + 1])
             THEN [location |-> next, result |-> toupper(input[next + 1]), overrun |-> FALSE]
             ELSE getNextChar(input, next)

\* StringProcessor::consume (the processor after it; the character returned is
\* the peeked one before it)
consume(sp) ==
    LET got == getNextChar(sp.input, sp.location)
    IN  [sp EXCEPT !.location = got.location, !.peeked = got.result,
                   !.overrun = sp.overrun \/ got.overrun]

\* StringProcessor::StringProcessor
StringProcessor(input) ==
    LET fresh == [input |-> input, location |-> 0, peeked |-> NUL, overrun |-> FALSE,
                  overflow |-> FALSE]
    IN  IF Len(input) # 0
        THEN IF isspace(toupper(input[1]))
             THEN consume(fresh)
             ELSE [fresh EXCEPT !.peeked = toupper(input[1])]
        ELSE fresh

\* StringProcessor::done, StringProcessor::peek
done(sp) == sp.location = Len(sp.input)
peek(sp) == sp.peeked

\* number * 10 + digit in a 32-bit int, computed on 16-bit halves (signed overflow
\* is undefined in C++; the builds at hand wrap around)
MulAdd32(number, digit) ==
    LET hi    == number \div 65536
        lo    == number % 65536
        low   == (lo * 10) + digit
        high  == (hi * 10) + (low \div 65536)
        wrapH == ((high + 32768) % 65536) - 32768
    IN  (wrapH * 65536) + (low % 65536)

\* number * 10 + digit is outside [-2^31, 2^31 - 1]
Overflows32(number, digit) ==
    \/ number > 214748364
    \/ number = 214748364 /\ digit > 7
    \/ number < -214748364

\* StringProcessor::getNumber: [sp, number, error]
RECURSIVE getNumberLoop(_, _, _)
getNumberLoop(sp, number, firstChar) ==
    IF IsDigit(peek(sp))
    THEN getNumberLoop([consume(sp) EXCEPT !.overflow =
                            @ \/ Overflows32(number, DigitValue(peek(sp)))],
                       MulAdd32(number, DigitValue(peek(sp))), FALSE)
    ELSE [sp |-> sp, number |-> number,
          error |-> IF firstChar THEN "Command requires value, none given." ELSE ""]

getNumber(sp) == getNumberLoop(sp, 0, TRUE)

-----------------------------------------------------------------------------
(* buildVoiceFromString.  The parser's locals are the fields of a record;   *)
(* error is the message of the std::invalid_argument thrown ("" = none);    *)
(* ub records an undefined read (pitches[note] outside the table, or the    *)
(* reader running past the end of the line) or an int overflow of the       *)
(* number reader.  articulation is in 1/8.  indices is history: the index   *)
(* into pitches of every note emitted.                                      *)

\* static const int map [] = { 9, 11, 0, 2, 4, 5, 7 }: the semitone of A..G
NoteMap == <<9, 11, 0, 2, 4, 5, 7>>

\* semitones counted from A
SemitoneFromA(c) == 2 * ((CHOOSE i \in 1..7 : UpperCase[i] = c) - 1)

Semitone(c) == NoteMap[CHOOSE i \in 1..7 : UpperCase[i] = c]

\* a length that counts backwards
LengthOfNegative(beatNote, tempo) == 0 - ((240 * TicksPerSecond) \div (beatNote * tempo))

\* 240.0 / (beatNote * tempo) seconds, in ticks
LengthOf(beatNote, tempo) == (240 * TicksPerSecond) \div (beatNote * tempo)

\* pitches[note]; a read outside the table is undefined
PitchAt(pitches, note) == IF note \in 0..(Len(pitches) - 1) THEN pitches[note + 1] ELSE 0

Throw(st, message) == [st EXCEPT !.error = message]

\* a dot that adds the same half again
DotFlat(m) == [m EXCEPT !.command = consume(@), !.tempLength = @ + m.nextDot]

\* case '.': the dot adds nextDot, and the next dot adds half of that
Dot(m) ==
    [m EXCEPT !.command = consume(@), !.tempLength = @ + m.nextDot, !.nextDot = @ \div 2]

\* a chord continuation after which the cursor moves all the same
ChordAdvances(m) == [m EXCEPT !.command = consume(@), !.modifiers = FALSE]

\* case ',': the note ends here and the cursor stays
ChordContinuation(m) ==
    [m EXCEPT !.command = consume(@), !.modifiers = FALSE, !.advance = FALSE]

\* one pass of the modifier loop of a note letter (the switch on the suffix)
ModifierStep(m, currentTempo) ==
    LET c == peek(m.command)
    IN  CASE c \in {"+", "#"} ->
               [m EXCEPT !.command = consume(@), !.note = @ + 1,
                         !.error = IF m.note + 1 = totalNotes
                                   THEN "Tried to sharp the highest note." ELSE ""]
          [] c = "-" ->
               [m EXCEPT !.command = consume(@), !.note = @ - 1,
                         !.error = IF m.note - 1 = -1
                                   THEN "Tried to flat the lowest note." ELSE ""]
          [] c = "." -> Dot(m)
          [] c \in {"1", "2", "3", "4", "5", "6", "7", "8", "9"} ->
               With(getNumber(m.command), LAMBDA got :
                   IF got.error # "" THEN [m EXCEPT !.command = got.sp, !.error = got.error]
                   ELSE IF got.number < 1 \/ got.number > 64
                        THEN [m EXCEPT !.command = got.sp, !.error = "Invalid note length."]
                        ELSE [m EXCEPT !.command = got.sp,
                                       !.tempLength = LengthOf(got.number, currentTempo),
                                       !.nextDot = LengthOf(got.number, currentTempo) \div 2])
          [] c = "_"  -> [m EXCEPT !.command = consume(@), !.tempDuration = 8]
          [] c = "'"  -> [m EXCEPT !.command = consume(@), !.tempDuration = 6]
          [] c = "^"  -> [m EXCEPT !.command = consume(@),
                                   !.tempVolume = Min(@ + VolOne \div 8, VolOne)]
          [] c = ","  -> ChordContinuation(m)
          [] OTHER    -> [m EXCEPT !.modifiers = FALSE]

RECURSIVE ModifierLoop(_, _)
ModifierLoop(m, currentTempo) ==
    IF m.error # "" \/ ~m.modifiers THEN m
    ELSE With(ModifierStep(m, currentTempo), LAMBDA next : ModifierLoop(next, currentTempo))

\* a note letter whose suffixes stay in force for the notes after it
NoteLetterKeepsSuffixes(st, pitches) ==
    With(ModifierLoop(
                [command |-> consume(st.command),
                 note |-> st.currentOctave * notesPerOctave + Semitone(peek(st.command)),
                 tempDuration |-> st.articulation, tempLength |-> st.noteLength,
                 tempVolume |-> st.volume, modifiers |-> TRUE, advance |-> TRUE,
                 nextDot |-> st.noteLength \div 2, error |-> ""],
                st.currentTempo), LAMBDA m :
        IF m.error # "" THEN [st EXCEPT !.command = m.command, !.error = m.error]
        ELSE [st EXCEPT !.command = m.command,
                        !.ub = @ \/ m.note \notin 0..(Len(pitches) - 1),
                        !.indices = Append(@, m.note),
                        !.notes = Append(@, NewNote(st.instrument, PitchAt(pitches, m.note),
                                                    st.time, (m.tempLength * m.tempDuration) \div 8,
                                                    m.tempVolume)),
                        !.noteLength = m.tempLength, !.articulation = m.tempDuration,
                        !.volume = m.tempVolume,
                        !.time = IF m.advance THEN @ + m.tempLength ELSE @])

\* case 'A' .. 'G': a note letter with its suffixes
NoteLetter(st, pitches) ==
    With(ModifierLoop(
                [command |-> consume(st.command),
                 note |-> st.currentOctave * notesPerOctave + Semitone(peek(st.command)),
                 tempDuration |-> st.articulation, tempLength |-> st.noteLength,
                 tempVolume |-> st.volume, modifiers |-> TRUE, advance |-> TRUE,
                 nextDot |-> st.noteLength \div 2, error |-> ""],
                st.currentTempo), LAMBDA m :
        IF m.error # "" THEN [st EXCEPT !.command = m.command, !.error = m.error]
        ELSE [st EXCEPT !.command = m.command,
                        !.ub = @ \/ m.note \notin 0..(Len(pitches) - 1),
                        !.indices = Append(@, m.note),
                        !.notes = Append(@, NewNote(st.instrument, PitchAt(pitches, m.note),
                                                    st.time, (m.tempLength * m.tempDuration) \div 8,
                                                    m.tempVolume)),
                        !.time = IF m.advance THEN @ + m.tempLength ELSE @])

\* the dots of a rest: [sp, tempLength]
RECURSIVE DotLoop(_, _, _)
DotLoop(sp, tempLength, nextDot) ==
    IF peek(sp) = "."
    THEN With(consume(sp), LAMBDA next : DotLoop(next, tempLength + nextDot, nextDot \div 2))
    ELSE [sp |-> sp, tempLength |-> tempLength]

\* case 'P', 'R': a rest
Rest(st) ==
    With(consume(st.command), LAMBDA sp :
        IF IsDigit(peek(sp))
        THEN With(getNumber(sp), LAMBDA got :
                 IF got.error # "" THEN [st EXCEPT !.command = got.sp, !.error = got.error]
                 ELSE IF got.number < 1 \/ got.number > 64
                      THEN [st EXCEPT !.command = got.sp, !.error = "Invalid note length."]
                      ELSE With(DotLoop(got.sp, LengthOf(got.number, st.currentTempo),
                                        LengthOf(got.number, st.currentTempo) \div 2),
                                LAMBDA dots :
                                [st EXCEPT !.command = dots.sp, !.time = @ + dots.tempLength]))
        ELSE With(DotLoop(sp, st.noteLength, st.noteLength \div 2), LAMBDA dots :
                 [st EXCEPT !.command = dots.sp, !.time = @ + dots.tempLength]))

\* case 'T', 'L', 'O', 'N': the commands that take a number
Tempo(st) ==
    With(getNumber(consume(st.command)), LAMBDA got :
    LET set == [st EXCEPT !.command = got.sp, !.currentTempo = got.number]
    IN  IF got.error # "" THEN [st EXCEPT !.command = got.sp, !.error = got.error]
        ELSE IF got.number < 16 \/ got.number > 256
             THEN Throw(set, "Asked to play music either too slow or too fast.")
             ELSE [set EXCEPT !.noteLength = LengthOf(st.currentBeatNote, got.number)])

BeatNote(st) ==
    With(getNumber(consume(st.command)), LAMBDA got :
    LET set == [st EXCEPT !.command = got.sp, !.currentBeatNote = got.number]
    IN  IF got.error # "" THEN [st EXCEPT !.command = got.sp, !.error = got.error]
        ELSE IF got.number < 1 \/ got.number > 64
             THEN Throw(set, "Invalid note length.")
             ELSE [set EXCEPT !.noteLength = LengthOf(got.number, st.currentTempo)])

Octave(st) ==
    With(getNumber(consume(st.command)), LAMBDA got :
    LET set == [st EXCEPT !.command = got.sp, !.currentOctave = got.number]
    IN  IF got.error # "" THEN [st EXCEPT !.command = got.sp, !.error = got.error]
        ELSE IF octavesImplemented <= got.number
             THEN Throw(set, "Set current octave too high.")
             ELSE set)

RawNote(st, pitches) ==
    With(getNumber(consume(st.command)), LAMBDA got :
    LET at == [st EXCEPT !.command = got.sp]
    IN  IF got.error # "" THEN Throw(at, got.error)
        ELSE IF got.number > totalNotes
             THEN Throw(at, "Invalid note number.")
             ELSE IF got.number # 0
                  THEN [at EXCEPT !.ub = @ \/ (got.number - 1) \notin 0..(Len(pitches) - 1),
                                  !.indices = Append(@, got.number - 1),
                                  !.notes = Append(@, NewNote(st.instrument,
                                                PitchAt(pitches, got.number - 1), st.time,
                                                (st.noteLength * st.articulation) \div 8,
                                                st.volume)),
                                  !.time = @ + st.noteLength]
                  ELSE [at EXCEPT !.time = @ + st.noteLength])

\* case 'M': music mode
Music(st) ==
    With(consume(st.command), LAMBDA sp :
    LET c == peek(sp)
    IN  CASE c \in {"F", "B"} -> [st EXCEPT !.command = consume(sp)]
          [] c = "L" -> [st EXCEPT !.command = consume(sp), !.articulation = 8]
          [] c = "N" -> [st EXCEPT !.command = consume(sp), !.articulation = 7]
          [] c = "S" -> [st EXCEPT !.command = consume(sp), !.articulation = 6]
          [] OTHER   -> [st EXCEPT !.command = sp,
                            !.error = "Did not understand music ('M') command component."])

\* case 'I': instrument
InstrumentCommand(st, instruments) ==
    With(consume(st.command), LAMBDA sp :
    LET c == peek(sp)
    IN  CASE c = "Q" -> [st EXCEPT !.command = consume(sp), !.instrument = makeSquareWaveInstrument]
          [] c = "T" -> [st EXCEPT !.command = consume(sp), !.instrument = makeTriangularWaveInstrument]
          [] c = "S" -> [st EXCEPT !.command = consume(sp), !.instrument = makeSineWaveInstrument]
          [] c = "W" -> [st EXCEPT !.command = consume(sp), !.instrument = makeSawWaveInstrument]
          [] c = "N" -> [st EXCEPT !.command = consume(sp), !.instrument = makeNoiseInstrument]
          [] c = "X" ->
               LET spx == consume(sp)
               IN  IF peek(spx) \notin DOMAIN instruments
                   THEN [st EXCEPT !.command = spx, !.error = "Invalid instrument."]
                   ELSE [st EXCEPT !.command = consume(spx),
                                   !.instrument = instruments[peek(spx)]]
          [] c = "P" ->
               With(getNumber(consume(sp)), LAMBDA got :
                   IF got.error # "" THEN [st EXCEPT !.command = got.sp, !.error = got.error]
                   ELSE IF got.number < 1 \/ got.number > 99
                        THEN [st EXCEPT !.command = got.sp,
                                  !.error = "Invalid duty cycle for a rectangular wave."]
                        ELSE [st EXCEPT !.command = got.sp,
                                  !.instrument = makeRectangularWaveInstrument(got.number)])
          [] OTHER -> [st EXCEPT !.command = sp, !.error = "Invalid instrument."])

\* if (';' == command.peek()) command.consume()
SkipSemicolon(sp) == IF peek(sp) = ";" THEN consume(sp) ELSE sp

\* case 'V': volume, as a number or as a dynamics word
Volume(st) ==
    With(consume(st.command), LAMBDA sp :
    LET c == peek(sp)
    IN  CASE IsDigit(c) ->
               With(getNumber(sp), LAMBDA got :
                   IF got.error # "" THEN [st EXCEPT !.command = got.sp, !.error = got.error]
                   ELSE IF 100 < got.number
                        THEN [st EXCEPT !.command = got.sp, !.error = "Invalid volume."]
                        ELSE [st EXCEPT !.command = got.sp,
                                        !.volume = (got.number * VolOne) \div 100])
          [] c = "P" ->
               LET p1 == consume(sp)
                   p2 == consume(p1)
               IN  IF peek(p1) = "P"
                   THEN IF peek(p2) = "P"
                        THEN [st EXCEPT !.command = SkipSemicolon(consume(p2)),
                                        !.volume = VolOne \div 8]
                        ELSE [st EXCEPT !.command = SkipSemicolon(p2),
                                        !.volume = (2 * VolOne) \div 8]
                   ELSE [st EXCEPT !.command = SkipSemicolon(p1),
                                   !.volume = (3 * VolOne) \div 8]
          [] c = "M" ->
               LET m1 == consume(sp)
               IN  IF peek(m1) = "P"
                   THEN [st EXCEPT !.command = SkipSemicolon(consume(m1)),
                                   !.volume = (4 * VolOne) \div 8]
                   ELSE IF peek(m1) = "F"
                        THEN [st EXCEPT !.command = SkipSemicolon(consume(m1)),
                                        !.volume = (5 * VolOne) \div 8]
                        ELSE [st EXCEPT !.command = m1,
                                  !.error = "Invalid volume specification: mezzo-I-don't-know."]
          [] c = "F" ->
               LET f1 == consume(sp)
                   f2 == consume(f1)
               IN  IF peek(f1) # "F"
                   THEN [st EXCEPT !.command = SkipSemicolon(f1),
                                   !.volume = (6 * VolOne) \div 8]
                   ELSE IF peek(f2) # "F"
                        THEN [st EXCEPT !.command = SkipSemicolon(f2),
                                        !.volume = (7 * VolOne) \div 8]
                        ELSE [st EXCEPT !.command = SkipSemicolon(consume(f2)),
                                        !.volume = VolOne]
          [] OTHER -> [st EXCEPT !.command = sp, !.error = "Invalid volume specification."])

\* one pass of the main loop: the switch on command.peek()
Command(st, instruments, pitches) ==
    LET c == peek(st.command)
    IN  CASE c \in {"A", "B", "C", "D", "E", "F", "G"} -> NoteLetter(st, pitches)
          [] c = ">" ->
               [st EXCEPT !.command = consume(@), !.currentOctave = @ + 1,
                          !.error = IF st.currentOctave + 1 = octavesImplemented
                                    THEN "Operation '>' exceeded octave range." ELSE ""]
          [] c = "<" ->
               [st EXCEPT !.command = consume(@), !.currentOctave = @ - 1,
                          !.error = IF st.currentOctave - 1 = -1
                                    THEN "Operation '<' exceeded octave range." ELSE ""]
          [] c = "T" -> Tempo(st)
          [] c = "L" -> BeatNote(st)
          [] c = "O" -> Octave(st)
          [] c = "N" -> RawNote(st, pitches)
          [] c \in {"P", "R"} -> Rest(st)
          [] c = "M" -> Music(st)
          [] c = "I" -> InstrumentCommand(st, instruments)
          [] c = "V" -> Volume(st)
          [] OTHER   -> Throw(st, "Did not understand command component.")

\* while (false == command.done()): the loop ends at the end of the line or at
\* the first exception
RECURSIVE ParseLoop(_, _, _)
ParseLoop(st, instruments, pitches) ==
    IF st.error # "" \/ done(st.command) THEN st
    ELSE With(Command(st, instruments, pitches),
              LAMBDA next : ParseLoop(next, instruments, pitches))

\* the parser's locals before the first command (crashed: the process was ended
\* by an undefined operation)
ParserStart(input, instruments) ==
    [currentOctave |-> 4, currentBeatNote |-> 4, currentTempo |-> 120, articulation |-> 7,
     noteLength |-> LengthOf(4, 120), volume |-> VolOne \div 2, time |-> 0,
     notes |-> <<>>, indices |-> <<>>, instrument |-> instruments[NUL],
     command |-> StringProcessor(input), error |-> "", ub |-> FALSE, crashed |-> FALSE]

\* the locals when one of the two tests of the arguments throws: the numbers are
\* set, notes is empty, and instrument and command do not exist yet (the
\* default instrument and the reader of an empty line stand for them)
NotStarted(message) == Throw(ParserStart(<<>>, DefaultInstrument), message)

\* an entry that takes any table that is long enough
EntryAtLeast(input, instruments, pitches) ==
    IF totalNotes > Len(pitches)
    THEN NotStarted("Note array of invalid size.")
    ELSE IF NUL \notin DOMAIN instruments
         THEN NotStarted("No default instrument in instrument list.")
         ELSE ParserStart(input, instruments)

\* the entry of buildVoiceFromString: the tests of the arguments, then the
\* locals before the first command
Entry(input, instruments, pitches) ==
    IF totalNotes # Len(pitches)
    THEN NotStarted("Note array of invalid size.")
    ELSE IF NUL \notin DOMAIN instruments
         THEN NotStarted("No default instrument in instrument list.")
         ELSE ParserStart(input, instruments)

\* buildVoiceFromString: [error, ub, voice, time]; voice is returned when
\* error = ""; time is history: the local time when the line ends, the length of
\* what was written
buildVoiceFromString(input, instruments, pitches) ==
    With(ParseLoop(Entry(input, instruments, pitches), instruments, pitches),
         LAMBDA st : [error |-> st.error,
                      ub |-> st.ub \/ st.command.overrun \/ st.command.overflow,
                      voice |-> NewVoice(st.notes), time |-> st.time])

-----------------------------------------------------------------------------
(* The inputs.  Every line sets T240 L64, which makes a note 32 ticks long  *)
(* (28 ticks at the normal articulation 7/8, plus 3 ticks of release).      *)

Short == <<"T", "2", "4", "0", "L", "6", "4">>

\* one note; two legato notes (the release of the first runs into the second);
\* a chord of two notes at full volume; a higher note; a rest only; a line
\* that does not parse
LineC      == Short \o <<"C">>
LineLegato == Short \o <<"M", "L", "C", "D">>
LineChord  == Short \o <<"V", "1", "0", "0", "C", ",", "E">>
LineHigh   == Short \o <<"O", "5", "G", "'">>
LineRest   == <<"R">>
LineBad    == <<"C", "#", "Z">>

SongA      == <<LineC>>
SongB      == <<LineHigh, LineC>>
SongLegato == <<LineLegato>>
SongChord  == <<LineChord>>
SongRest   == <<LineRest>>
SongBad    == <<LineC, LineBad>>
\* songs with lines that emit no note: a rest, or state commands only
SongUpbeat == <<LineRest, LineC>>
SongSolo   == <<LineHigh, Short, LineC, LineRest>>

\* what queueMusic is called with, and what the idle callback may be
SongNone   == <<>>

\* an instrument map without the default instrument (the NUL key)
NoDefaultInstrument == [c \in {"H"} |-> makeSineWaveInstrument]

\* what queueMusic is called with, and what the idle callback may be
Musics == {SongA, SongB, SongRest, SongBad, SongNone}
\* the songs played at a fixed rate, and the lines played as a Voice on its own
PlayMusics == {SongA, SongB, SongLegato, SongChord}
\* four quarter notes at tempo 120, and one whole note at tempo 60
LineScale == <<"T", "1", "2", "0", " ", "L", "4", " ", "O", "4", " ",
               "C", " ", "D", " ", "E", " ", "F">>
LineWhole == <<"T", "6", "0", " ", "L", "1", " ", "O", "4", " ", "A">>

VoiceLines == {LineC, LineLegato, LineChord, LineHigh, LineScale, LineWhole}
\* the songs a Maestro played on its own is built from
ChoirMusics == {SongA, SongB, SongChord, SongRest, SongUpbeat, SongSolo}
InstrumentMaps == {DefaultInstrument, NoDefaultInstrument}
Hollabacks ==
    {[kind |-> "null", music |-> <<>>], [kind |-> "done", music |-> <<>>],
     [kind |-> "queue", music |-> SongA], [kind |-> "queue", music |-> SongRest]}
\* the timeDelta and the channel of a getSample call
Deltas == {8, 16}
Channels == {0, 1}

-----------------------------------------------------------------------------
(* Maestro from text, and the Venue.                                        *)

\* Maestro::Maestro(music, instruments): the loop over the lines; an exception of
\* buildVoiceFromString leaves the constructor at once.  partial is the choir
\* built before the exception (it is destroyed with the half-built Maestro).
\* a constructor that keeps the voices without notes
RECURSIVE BuildChoirKeepsEmpty(_, _, _, _)
BuildChoirKeepsEmpty(music, instruments, k, choir) ==
    IF k > Len(music) THEN [error |-> "", ub |-> FALSE, choir |-> choir, length |-> 0]
    ELSE With(buildVoiceFromString(music[k], instruments, StandardNotes), LAMBDA built :
             IF built.error # ""
             THEN [error |-> built.error, ub |-> built.ub, choir |-> choir, length |-> 0]
             ELSE [BuildChoirKeepsEmpty(music, instruments, k + 1, Append(choir, built.voice))
                   EXCEPT !.ub = @ \/ built.ub,
                          !.length = IF @ < built.time THEN built.time ELSE @])

\* a constructor that starts every line after the first in the state the line
\* before it has left (octave, lengths, volume, instrument and cursor)
RECURSIVE BuildChoirCarries(_, _, _, _)
BuildChoirCarries(music, instruments, k, choir) ==
    IF k > Len(music) THEN [error |-> "", ub |-> FALSE, choir |-> choir, length |-> 0]
    ELSE With(ParseLoop(IF k = 1 THEN Entry(music[k], instruments, StandardNotes)
                        ELSE [ParseLoop(Entry(music[k - 1], instruments, StandardNotes),
                                        instruments, StandardNotes)
                              EXCEPT !.command = StringProcessor(music[k]),
                                     !.notes = <<>>, !.indices = <<>>],
                        instruments, StandardNotes), LAMBDA st :
             IF st.error # ""
             THEN [error |-> st.error, ub |-> st.ub, choir |-> choir, length |-> 0]
             ELSE [BuildChoirCarries(music, instruments, k + 1,
                                     IF st.notes = <<>> THEN choir
                                     ELSE Append(choir, NewVoice(st.notes)))
                   EXCEPT !.ub = @ \/ st.ub,
                          !.length = IF @ < st.time THEN st.time ELSE @])

RECURSIVE BuildChoir(_, _, _, _)
BuildChoir(music, instruments, k, choir) ==
    IF k > Len(music) THEN [error |-> "", ub |-> FALSE, choir |-> choir, length |-> 0]
    ELSE With(buildVoiceFromString(music[k], instruments, StandardNotes), LAMBDA built :
             IF built.error # ""
             THEN [error |-> built.error, ub |-> built.ub, choir |-> choir, length |-> 0]
             ELSE [BuildChoir(music, instruments, k + 1,
                              IF VoiceFinished(built.voice)
                              THEN choir
                              ELSE Append(choir, built.voice))
                   EXCEPT !.ub = @ \/ built.ub,
                          !.length = IF @ < built.time THEN built.time ELSE @])

\* length is history: the length of the song as written, the longest line's
MaestroFromText(music, instruments) ==
    With(BuildChoir(music, instruments, 1, <<>>), LAMBDA built :
        [error |-> built.error, ub |-> built.ub, maestro |-> NewMaestro(built.choir),
         partial |-> NewMaestro(built.choir), length |-> built.length])

\* MaestroFromText on the inputs of the model, evaluated once
BuiltMaestros ==
    [in \in (Musics \cup PlayMusics \cup ChoirMusics) \X InstrumentMaps |->
        MaestroFromText(in[1], in[2])]

Construct(music, instruments) ==
    IF <<music, instruments>> \in (Musics \cup PlayMusics \cup ChoirMusics) \X InstrumentMaps
    THEN BuiltMaestros[<<music, instruments>>]
    ELSE MaestroFromText(music, instruments)

\* The Venue as a value: its fields, and the history counter nextId.
Venue ==
    [program |-> program, stopPlaying |-> stopPlaying, looping |-> looping,
     internalTime |-> internalTime, hollaback |-> hollaback, nextId |-> nextId]

\* Venue::Venue
NewVenue ==
    [program |-> <<>>, stopPlaying |-> FALSE, looping |-> FALSE, internalTime |-> -1,
     hollaback |-> [kind |-> "null", music |-> <<>>], nextId |-> 1]

\* queueMusic with the Maestro linked into the list before its voices are built:
\* an exception leaves the voices parsed so far in the queue
queueMusicPartial(v, music, instruments) ==
    With(Construct(music, instruments), LAMBDA built :
        [venue |-> [v EXCEPT !.program = Append(@, [built.partial EXCEPT !.id = v.nextId]),
                             !.nextId = @ + 1],
         threw |-> built.error # ""])

\* Venue::queueMusic(music, instruments): program.emplace_back(music, instruments).
\* The Maestro is constructed before its node is linked into the list, so an
\* exception of the constructor leaves program as it was.  [venue, threw]
queueMusic(v, music, instruments) ==
    With(Construct(music, instruments), LAMBDA built :
        IF built.error # ""
        THEN [venue |-> v, threw |-> TRUE]
        ELSE [venue |-> [v EXCEPT !.program = Append(@, [built.maestro EXCEPT !.id = v.nextId]),
                                  !.nextId = @ + 1],
              threw |-> FALSE])

\* Venue::queueMusic(const Maestro&): program.push_back(song)
queueSong(v, song) ==
    [v EXCEPT !.program = Append(@, [song EXCEPT !.id = v.nextId]), !.nextId = @ + 1]

\* Venue::clearQueue, Venue::toggleLoop, Venue::addMusicCallback
clearQueue(v) == [v EXCEPT !.stopPlaying = TRUE]
toggleLoop(v) == [v EXCEPT !.looping = ~@]
addMusicCallback(v, callOnMusicDone) == [v EXCEPT !.hollaback = callOnMusicDone]

\* hollaback(): the callbacks of the two programs.  "done" is MakeWave's
\* [&](){ done = true; }, which leaves the Venue alone; "queue" is the player's
\* OnMusicEnded, which queues its (previously parsed) music again.
CallHollaback(v) ==
    IF v.hollaback.kind = "queue"
    THEN queueMusic(v, v.hollaback.music, DefaultInstrument).venue
    ELSE v

\* Venue::getSample, statement by statement.  The result holds the Venue after
\* the call, the value returned, and as history: calls (how often hollaback was
\* invoked), cleared (the stop branch ran), popped (id of the Maestro dequeued),
\* looped (the head was reset), playedId / playedAt (the Maestro that produced
\* the sample and the internalTime it was asked for; 0 / -1 when none did).
Silent(v, calls, cleared, popped, looped) ==
    [venue |-> v, ret |-> 0, calls |-> calls, cleared |-> cleared, popped |-> popped,
     looped |-> looped, playedId |-> 0, playedAt |-> -1]

\* the stop branch without the reset of internalTime
StopBranchKeepsTime(v) ==
    LET cleared == [v EXCEPT !.program = <<>>, !.stopPlaying = FALSE]
    IN  IF v.hollaback.kind # "null" THEN CallHollaback(cleared) ELSE cleared

\* if (true == stopPlaying) { program.clear(); ... hollaback(); }
StopBranch(v) ==
    LET cleared == [v EXCEPT !.program = <<>>, !.stopPlaying = FALSE, !.internalTime = -1]
    IN  IF v.hollaback.kind # "null" THEN CallHollaback(cleared) ELSE cleared

\* the finished branch without the reset of internalTime
FinishedBranchKeepsTime(v) ==
    IF v.looping
    THEN [v EXCEPT !.program = <<MaestroLoop(Head(@))>> \o Tail(@)]
    ELSE [v EXCEPT !.program = Tail(@)]

\* if (true == program.front().finished()) { loop or pop; internalTime = -1.0; }
FinishedBranch(v) ==
    IF v.looping
    THEN [v EXCEPT !.program = <<MaestroLoop(Head(@))>> \o Tail(@), !.internalTime = -1]
    ELSE [v EXCEPT !.program = Tail(@), !.internalTime = -1]

\* if (-1.0 == internalTime) internalTime = 0.0; else internalTime += timeDelta;
AdvanceTime(v, timeDelta) ==
    [v EXCEPT !.internalTime = IF @ = -1 THEN 0 ELSE @ + timeDelta]

\* a getSample that serves every channel
WrongChannelNever(unused) == FALSE

\* if (0 != unused): is this the wrong channel?
WrongChannel(unused) == unused # 0

\* if (0U == program.size()): is there nothing to play?
NothingToPlay(v) == Len(v.program) = 0

\* a getSample that never asks for the queue to be filled
ShouldFillNever(v) == FALSE

\* if ((0U == program.size()) && (nullptr != hollaback)): fill the queue?
ShouldFill(v) == Len(v.program) = 0 /\ v.hollaback.kind # "null"

getSample(v, unused, timeDelta) ==
    IF WrongChannel(unused) THEN Silent(v, 0, FALSE, 0, FALSE)
    ELSE
    With(IF v.stopPlaying THEN StopBranch(v) ELSE v, LAMBDA s1 :
    LET stop   == v.stopPlaying
        calls1 == IF stop /\ v.hollaback.kind # "null" THEN 1 ELSE 0
    IN  IF NothingToPlay(s1) THEN Silent(s1, calls1, stop, 0, FALSE)
        ELSE
        With(MaestroFinished(Head(s1.program)), LAMBDA fin :
        With(IF fin THEN FinishedBranch(s1) ELSE s1, LAMBDA s2 :
        With(IF ShouldFill(s2) THEN CallHollaback(s2) ELSE s2, LAMBDA s3 :
        LET popped == IF fin /\ ~s1.looping THEN Head(s1.program).id ELSE 0
            looped == fin /\ s1.looping
            calls2 == IF ShouldFill(s2) THEN calls1 + 1 ELSE calls1
        IN  IF NothingToPlay(s3) THEN Silent(s3, calls2, stop, popped, looped)
            ELSE
            With(AdvanceTime(s3, timeDelta), LAMBDA s4 :
            With(MaestroPlay(Head(s4.program), s4.internalTime), LAMBDA played :
                [venue |-> [s4 EXCEPT !.program = <<played.maestro>> \o Tail(@)],
                 ret |-> played.sample, calls |-> calls2, cleared |-> stop,
                 popped |-> popped, looped |-> looped,
                 playedId |-> Head(s4.program).id, playedAt |-> s4.internalTime]))))))

-----------------------------------------------------------------------------
(* The sequential specification: the calls of the Venue's interface, one at  *)
(* a time, in any order.                                                     *)

\* history of a call that is not getSample
NoSample(op, threw, music, instruments) ==
    [op |-> op, music |-> music, instruments |-> instruments, channel |-> 0, dt |-> 0, ret |-> 0, calls |-> 0, cleared |-> FALSE,
     popped |-> 0, looped |-> FALSE, playedId |-> 0, playedAt |-> -1, threw |-> threw,
     prevPlayed |-> IF last.playedId # 0 THEN last.playedId ELSE last.prevPlayed]

\* history before the first call
NoOperation ==
    [op |-> "Venue", music |-> <<>>, instruments |-> <<>>, channel |-> 0, dt |-> 0,
     ret |-> 0, calls |-> 0, cleared |-> FALSE, popped |-> 0, looped |-> FALSE,
     playedId |-> 0, playedAt |-> -1, threw |-> FALSE, prevPlayed |-> 0]

\* history of a getSample call with the result r
Sample(r, unused, timeDelta) ==
    [op |-> "getSample", music |-> <<>>, instruments |-> <<>>,
     channel |-> unused, dt |-> timeDelta,
     ret |-> r.ret, calls |-> r.calls, cleared |-> r.cleared,
     popped |-> r.popped, looped |-> r.looped, playedId |-> r.playedId,
     playedAt |-> r.playedAt, threw |-> FALSE,
     prevPlayed |-> IF last.playedId # 0 THEN last.playedId ELSE last.prevPlayed]

SetVenue(v) ==
    /\ program' = v.program
    /\ stopPlaying' = v.stopPlaying
    /\ looping' = v.looping
    /\ internalTime' = v.internalTime
    /\ hollaback' = v.hollaback
    /\ nextId' = v.nextId

\* the Venue as constructed; no playback at a fixed rate; no Voice on its own
VenueIdle ==
    /\ program = NewVenue.program
    /\ stopPlaying = NewVenue.stopPlaying
    /\ looping = NewVenue.looping
    /\ internalTime = NewVenue.internalTime
    /\ hollaback = NewVenue.hollaback
    /\ nextId = NewVenue.nextId
    /\ last = NoOperation

PlayIdle == tune = <<>> /\ step = 0 /\ trace = <<>>

NotHeard == [sample |-> 0, summed |-> <<>>]
VoiceIdle == voice = NewVoice(<<>>) /\ now = -1 /\ heard = NotHeard

\* both threads outside the Venue
ConcIdle ==
    /\ audio = "idle" /\ control = "idle" /\ building = NewMaestro(<<>>)
    /\ doomed = {} /\ due = {} /\ raced = FALSE

\* no Maestro on its own; no line being parsed
NotSung == [sample |-> 0, parts |-> <<>>, done |-> <<>>, finished |-> TRUE]
ChoirIdle == score = <<>> /\ solo = NewMaestro(<<>>) /\ beat = -1 /\ sung = NotSung

\* no call of buildVoiceFromString yet
NoSetup == [input |-> <<>>, instruments |-> DefaultInstrument, pitches |-> <<>>]
ParseIdle == parse = ParserStart(<<>>, DefaultInstrument) /\ setup = NoSetup

\* no file was given
NoWave ==
    [tool |-> "", lines |-> <<>>, terminated |-> FALSE, text |-> <<>>, step |-> 0,
     pc |-> "exit", voices |-> <<>>, status |-> 0, done |-> FALSE, samples |-> 0]
RenderIdle == wave = NoWave

\* no envelope on its own
NoTone == [envelope |-> AREnvelope, duration |-> 0, time |-> -1, gain |-> 0]
EnvelopeIdle == tone = NoTone

\* no Voice has been copied
NoTwin == [original |-> NewVoice(<<>>), copy |-> NewVoice(<<>>), made |-> FALSE,
           foreign |-> 0, alive |-> TRUE, time |-> -1, clock |-> -1, ub |-> FALSE]
CopyIdle == twin = NoTwin

Init == VenueIdle /\ PlayIdle /\ VoiceIdle /\ ConcIdle /\ ChoirIdle /\ ParseIdle /\ RenderIdle /\ EnvelopeIdle /\ CopyIdle

QueueMusic(music, instruments) ==
    /\ Len(program) < MaxQueue
    /\ nextId <= MaxEnqueued
    /\ \E r \in {queueMusic(Venue, music, instruments)} :
           /\ SetVenue(r.venue)
           /\ last' = NoSample("queueMusic", r.threw, music, instruments)
    /\ UNCHANGED <<playVars, voiceVars, choirVars, parseVars, renderVars, envelopeVars, concVars, copyVars>>

ClearQueue ==
    /\ SetVenue(clearQueue(Venue))
    /\ last' = NoSample("clearQueue", FALSE, <<>>, <<>>)
    /\ UNCHANGED <<playVars, voiceVars, choirVars, parseVars, renderVars, envelopeVars, concVars, copyVars>>

ToggleLoop ==
    /\ SetVenue(toggleLoop(Venue))
    /\ last' = NoSample("toggleLoop", FALSE, <<>>, <<>>)
    /\ UNCHANGED <<playVars, voiceVars, choirVars, parseVars, renderVars, envelopeVars, concVars, copyVars>>

AddMusicCallback(callOnMusicDone) ==
    /\ hollaback # callOnMusicDone
    /\ SetVenue(addMusicCallback(Venue, callOnMusicDone))
    /\ last' = NoSample("addMusicCallback", FALSE, <<>>, <<>>)
    /\ UNCHANGED <<playVars, voiceVars, choirVars, parseVars, renderVars, envelopeVars, concVars, copyVars>>

GetSample(unused, timeDelta) ==
    \E r \in {getSample(Venue, unused, timeDelta)} :
        /\ r.venue.nextId <= MaxEnqueued + 1
        /\ SetVenue(r.venue)
        /\ last' = Sample(r, unused, timeDelta)
        /\ UNCHANGED <<playVars, voiceVars, choirVars, parseVars, renderVars, envelopeVars, concVars, copyVars>>

Next ==
    \/ \E music \in Musics, instruments \in InstrumentMaps : QueueMusic(music, instruments)
    \/ ClearQueue
    \/ ToggleLoop
    \/ \E cb \in Hollabacks : AddMusicCallback(cb)
    \/ \E unused \in Channels, timeDelta \in Deltas : GetSample(unused, timeDelta)

Spec == Init /\ [][Next]_vars

-----------------------------------------------------------------------------
(* Playback at a fixed rate: one song is queued, looping is on or off, and  *)
(* the audio callback asks for channel 0 with the same timeDelta every time *)
(* (MakeWave.cpp's rendering loop, step = 1.0 / samplerate).                *)

InitPlay ==
    /\ \E music \in PlayMusics, timeDelta \in Deltas, loop \in BOOLEAN :
          \E r \in {queueMusic(NewVenue, music, DefaultInstrument)} :
             /\ program = r.venue.program
             /\ nextId = r.venue.nextId
             /\ looping = loop
             /\ tune = music
             /\ step = timeDelta
    /\ stopPlaying = NewVenue.stopPlaying
    /\ internalTime = NewVenue.internalTime
    /\ hollaback = NewVenue.hollaback
    /\ last = NoOperation
    /\ trace = <<>>
    /\ VoiceIdle /\ ConcIdle /\ ChoirIdle /\ ParseIdle /\ RenderIdle /\ EnvelopeIdle /\ CopyIdle

PlaySample ==
    /\ Len(trace) < MaxCalls
    /\ \E r \in {getSample(Venue, 0, step)} :
          /\ SetVenue(r.venue)
          /\ last' = Sample(r, 0, step)
          /\ trace' = Append(trace, [at |-> r.playedAt, ret |-> r.ret])
    /\ UNCHANGED <<tune, step, voiceVars, choirVars, parseVars, renderVars, envelopeVars, concVars, copyVars>>

NextPlay == PlaySample

SpecPlay == InitPlay /\ [][NextPlay]_vars

-----------------------------------------------------------------------------
(* A Voice on its own: Voice::play at times that never decrease, starting   *)
(* at 0 (the times Maestro::play passes on), and Voice::loop at any time    *)
(* after the first call (the Venue calls it on a finished Voice only, but   *)
(* loop is a public operation of Voice and Maestro).                        *)

VoiceDeltas == {1, 8}

\* the time at which the last release of a voice ends
LastSound(v) ==
    CHOOSE t \in {0} \cup {NoteEnd(v.notes[k]) : k \in 1..Len(v.notes)} :
        \A k \in 1..Len(v.notes) : NoteEnd(v.notes[k]) <= t

\* how long a voice is played: MaxTime, or for a voice longer than that, a
\* quarter of its length and MaxTime beyond its last release
Horizon(v) ==
    IF LastSound(v) <= MaxTime THEN MaxTime
    ELSE LastSound(v) + LastSound(v) \div 4 + MaxTime

InitVoice ==
    /\ VenueIdle /\ PlayIdle /\ ConcIdle /\ ChoirIdle /\ ParseIdle /\ RenderIdle /\ EnvelopeIdle /\ CopyIdle
    /\ \E line \in VoiceLines :
          voice = buildVoiceFromString(line, DefaultInstrument, StandardNotes).voice
    /\ now = -1
    /\ heard = NotHeard

PlayVoice(timeDelta) ==
    /\ now + timeDelta <= Horizon(voice)
    /\ now' = IF now = -1 THEN 0 ELSE now + timeDelta
    /\ \E r \in {VoicePlay(voice, IF now = -1 THEN 0 ELSE now + timeDelta)} :
          /\ voice' = r.voice
          /\ heard' = [sample |-> r.sample, summed |-> r.summed]
    /\ UNCHANGED <<venueVars, nextId, last, playVars, concVars, choirVars, parseVars, renderVars, envelopeVars, copyVars>>

LoopVoice ==
    /\ now # -1
    /\ voice' = VoiceLoop(voice)
    /\ now' = -1
    /\ heard' = NotHeard
    /\ UNCHANGED <<venueVars, nextId, last, playVars, concVars, choirVars, parseVars, renderVars, envelopeVars, copyVars>>

NextVoice ==
    \/ \E timeDelta \in VoiceDeltas : PlayVoice(timeDelta)
    \/ LoopVoice

SpecVoice == InitVoice /\ [][NextVoice]_vars

-----------------------------------------------------------------------------
(* A Maestro on its own: built from text, then Maestro::play at times that  *)
(* never decrease, starting at 0 (the times Venue::getSample passes on),    *)
(* and Maestro::loop once finished.                                         *)

InitMaestro ==
    /\ VenueIdle /\ PlayIdle /\ VoiceIdle /\ ConcIdle /\ ParseIdle /\ RenderIdle /\ EnvelopeIdle /\ CopyIdle
    /\ \E music \in ChoirMusics :
          /\ score = music
          /\ solo = Construct(music, DefaultInstrument).maestro
    /\ beat = -1
    /\ sung = NotSung

\* parts and done are history: what Voice::play gave for every voice, and
\* whether the voice was finished when Maestro::play was called
PlayMaestro(timeDelta) ==
    /\ beat + timeDelta <= MaxTime
    /\ \E time \in {IF beat = -1 THEN 0 ELSE beat + timeDelta} :
       \E r \in {MaestroPlay(solo, time)} :
          /\ beat' = time
          /\ solo' = r.maestro
          /\ sung' = [sample   |-> r.sample,
                      parts    |-> [k \in 1..Len(solo.choir) |->
                                       VoicePlay(solo.choir[k], time).sample],
                      done     |-> [k \in 1..Len(solo.choir) |->
                                       VoiceFinished(solo.choir[k])],
                      finished |-> MaestroFinished(r.maestro)]
    /\ UNCHANGED <<venueVars, nextId, last, playVars, voiceVars, concVars, score, parseVars, renderVars, envelopeVars, copyVars>>

LoopMaestro ==
    /\ beat # -1
    /\ MaestroFinished(solo)
    /\ solo' = MaestroLoop(solo)
    /\ beat' = -1
    /\ sung' = NotSung
    /\ UNCHANGED <<venueVars, nextId, last, playVars, voiceVars, concVars, score, parseVars, renderVars, envelopeVars, copyVars>>

NextMaestro ==
    \/ \E timeDelta \in VoiceDeltas : PlayMaestro(timeDelta)
    \/ LoopMaestro

SpecMaestro == InitMaestro /\ [][NextMaestro]_vars

-----------------------------------------------------------------------------
(* buildVoiceFromString, command by command: a line is given, and every     *)
(* step is one pass of the main loop, which reads one command with its      *)
(* suffixes.  A line is some commands that set the state, followed by up to *)
(* MaxCommands commands of ParseTokens, or one of ParseLines.  When a pass  *)
(* does something undefined (the number reader leaves the range of int, or  *)
(* pitches is read outside the table), the pass either goes on, with the    *)
(* wrapped number and with any frequency for the note, or ends the process. *)

\* the number of commands after the ones that set the state
MaxCommands == 2

\* the line of the round trip, "T120 L4 O4 C", without its note
LineDefaults == <<"T", "1", "2", "0", " ", "L", "4", " ", "O", "4", " ">>

ParsePrefixes == {<<>>, LineDefaults, <<"O", "8">>, <<"o", "0", "l", "8">>}

ParseTokens ==
    {<<"C">>, <<"C", "4", ".", ".">>, <<"C", ".">>, <<"C", ",">>, <<"B", "#">>,
     <<"C", "-">>, <<"C", "^">>, <<"C", "'">>, <<"C", "_">>, <<"C", ".", "4">>,
     <<"N", "1">>, <<"N", "0">>, <<"N", "1", "0", "8">>, <<"N", "1", "0", "9">>,
     <<">">>, <<"<">>, <<"O", "9">>, <<"V", "1", "0", "0">>, <<"V", "1", "0", "1">>,
     <<"R">>}

\* decimal numbers that do not fit an int: 2^32 - 1, 2^32 and 2^32 + 100
\* (-1, 0 and 100 after wrapping around)
TooLong == <<"4", "2", "9", "4", "9", "6", "7", "2", "9", "5">>
TooLongZero == <<"4", "2", "9", "4", "9", "6", "7", "2", "9", "6">>
TooLongHundred == <<"4", "2", "9", "4", "9", "6", "7", "3", "9", "6">>

\* 2^32 + 16 (16 after wrapping around)
TooLongSixteen == <<"4", "2", "9", "4", "9", "6", "7", "3", "1", "2">>

\* the numbers of T, L, a rest and a note at and beyond their limits
LimitLines ==
    {<<"T", "1", "6", "C">>, <<"T", "2", "5", "6", "L", "6", "4">>, <<"T", "1", "5">>,
     <<"T", "2", "5", "7">>, <<"L", "1", "C">>, <<"L", "0">>, <<"L", "6", "5">>,
     <<"R", "6", "4", "C">>, <<"R", "6", "5">>, <<"P", "0">>, <<"P", "1", ".", "C">>,
     <<"C", "6", "4", "C">>, <<"T", "0", "2", "0">>,
     <<"T">> \o TooLongSixteen \o <<"C">>, <<"L">> \o TooLongSixteen \o <<"C">>,
     <<"R">> \o TooLongSixteen \o <<"C">>, <<"C">> \o TooLongSixteen \o <<"C">>}

\* a line with white space at its start and end, inside a number and between
\* a note and its suffixes, in lower case; and one that does not parse
LineSpaced == <<" ", "t", "1", " ", "2", "0", "\t", "c", " ", "4", "\t", ".", " ">>
LineSpacedBad == <<"c", " ", "#", " ", "z", " ">>

LineThreeAs == <<"O", "3", "A", ">", "A", ">", "A">>

ParseLines ==
    {LineSpaced, LineSpacedBad, <<" ", "\t">>,
     <<"A">>, <<"B">>, <<"D">>, <<"E">>, <<"F">>, <<"G">>, <<"e", "-">>, <<"F", "+", "8", ".">>,
     <<"C", ",", "E", ",", "G">>, <<"C", "8", ",", "E", ".", ",", "G", "2", ".">>,
     <<"C", "#", "_", "^", ",">>, <<"C", "4", "#">>, <<"C", "'", ".">>, <<"C", ",", ".">>,
     <<"C", ".", ".", "2">>, <<"C", "6", "5">>, <<"N">>, <<"N", "4", "8", "C">>,
     <<"V", "0", "C", "^">>, <<"V", "M", "P", "C">>, <<"V", "M", "F", ";", "C", "^">>,
     <<"V", "F", "F", "C", "^", "^">>, <<"V", "P", "C">>, <<"V", "P", "P", "C">>,
     <<"V", "F", "C">>, <<"V", "P", "P", "P", "C">>, <<"V", "F", "F", "F", ";", "C", "^">>,
     <<"O", "8", "B", "+">>, <<"O", "0", "C", "-">>, <<"O", "8", "B">>, LineThreeAs,
     <<"O">> \o TooLong \o <<"C">>, <<"O">> \o TooLong \o <<">", "C">>,
     <<"N">> \o TooLong, <<"N">> \o TooLongZero,
     <<"V">> \o TooLong \o <<"C">>, <<"V">> \o TooLongHundred \o <<"C">>}
    \cup LimitLines

\* the sequences of at most n tokens, written one after the other
RECURSIVE Written(_)
Written(n) ==
    IF n = 0 THEN {<<>>}
    ELSE Written(n - 1) \cup {w \o t : w \in Written(n - 1), t \in ParseTokens}

Lines == {p \o w : p \in ParsePrefixes, w \in Written(MaxCommands)} \cup ParseLines

\* what an undefined read of pitches may give
Garbage == {0, A440}

\* something undefined has happened
Undefined(st) == st.ub \/ st.command.overrun \/ st.command.overflow

\* what a pass that ends in st may leave: st itself, or, when the pass did
\* something undefined, also a note of any frequency or the end of the process
Outcomes(st) ==
    IF Undefined(st) /\ ~Undefined(parse)
    THEN {st, [parse EXCEPT !.crashed = TRUE]}
         \cup (IF st.ub /\ Len(st.notes) > Len(parse.notes)
               THEN {[st EXCEPT !.notes[Len(st.notes)].frequency = g] : g \in Garbage}
               ELSE {})
    ELSE {st}

\* pitch tables: the standard one, one entry less, one more, and none
PitchTables ==
    {StandardNotes, SubSeq(StandardNotes, 1, totalNotes - 1), Append(StandardNotes, A440), <<>>}

\* the lines that are tried with every table and every instrument map
SetupLines == {<<>>, <<"C">>, LineSpaced, LineSpacedBad}

\* an instrument map with the default instrument and the key H
TwoInstruments ==
    [c \in {NUL, "H"} |-> IF c = NUL THEN DefaultInstrument[NUL] ELSE makeSineWaveInstrument]

\* lines that choose an instrument of the map, also as the last thing on the
\* line, with and without the key
InstrumentLines ==
    {<<"I", "X", "H">>, <<"I", "X", "H", "C">>, <<"i", " ", "x", " ", "h", " ">>,
     <<"I", "X", "Z">>, <<"I", "X">>, <<"C", "I", "X", " ">>, <<"I", "S", "C">>, <<"I">>}

\* the calls of buildVoiceFromString: every line with the default arguments,
\* and a few lines with all the others
Calls ==
    {[input |-> l, instruments |-> DefaultInstrument, pitches |-> StandardNotes] : l \in Lines}
    \cup {[input |-> l, instruments |-> TwoInstruments, pitches |-> StandardNotes] :
              l \in InstrumentLines}
    \cup {[input |-> l, instruments |-> i, pitches |-> p] :
              l \in SetupLines, i \in InstrumentMaps, p \in PitchTables}

InitParse ==
    /\ VenueIdle /\ PlayIdle /\ VoiceIdle /\ ConcIdle /\ ChoirIdle /\ RenderIdle /\ EnvelopeIdle /\ CopyIdle
    /\ \E call \in Calls :
          /\ setup = call
          /\ parse = Entry(call.input, call.instruments, call.pitches)

ParseCommand ==
    /\ parse.error = ""
    /\ ~parse.crashed
    /\ ~done(parse.command)
    /\ \E next \in Outcomes(Command(parse, setup.instruments, setup.pitches)) :
          parse' = next
    /\ UNCHANGED <<venueVars, nextId, last, playVars, voiceVars, concVars, choirVars, setup,
                   renderVars, envelopeVars, copyVars>>

NextParse == ParseCommand

SpecParse == InitParse /\ [][NextParse]_vars

-----------------------------------------------------------------------------
(* The two programs.  MakeWave (MakeWave.cpp) reads a file line by line,    *)
(* queues the lines as one song, installs a callback that sets its flag     *)
(* done, and asks for samples until the flag is set; the player (main.cpp)  *)
(* reads the file Music.txt, turns looping on and queues the lines.  A file *)
(* is a sequence of characters; it is written from up to MaxLines lines,    *)
(* each followed by a newline, the last one with or without it.             *)

\* std::ifstream on a file with the given text: what was read, and the state bits
OpenFile(text) == [text |-> text, pos |-> 0, eofbit |-> FALSE, failbit |-> FALSE]

\* std::ios::good
good(stream) == ~stream.eofbit /\ ~stream.failbit

\* the place of the first newline of text at or after place k, 0 when there is none
RECURSIVE NextNewline(_, _)
NextNewline(text, k) ==
    IF k > Len(text) THEN 0
    ELSE IF text[k] = "\n" THEN k ELSE NextNewline(text, k + 1)

\* std::getline(stream, str): [stream, str].  A stream that is not good fails
\* and leaves str alone; otherwise str is what is left up to the next newline,
\* which is taken but not stored, and when the end of the file comes first
\* eofbit is set, with failbit when nothing was left at all
getline(stream, str) ==
    IF ~good(stream) THEN [stream |-> [stream EXCEPT !.failbit = TRUE], str |-> str]
    ELSE With(NextNewline(stream.text, stream.pos + 1), LAMBDA nl :
             IF nl # 0
             THEN [stream |-> [stream EXCEPT !.pos = nl],
                   str |-> SubSeq(stream.text, stream.pos + 1, nl - 1)]
             ELSE [stream |-> [stream EXCEPT !.pos = Len(stream.text), !.eofbit = TRUE,
                                             !.failbit = (stream.pos = Len(stream.text))],
                   str |-> SubSeq(stream.text, stream.pos + 1, Len(stream.text))])

\* (false == toPlay.empty()) && ('/' != toPlay[0])
IsVoice(toPlay) == toPlay # <<>> /\ toPlay[1] # "/"

\* while (true == music.good()) { push_back; getline }: [toPlay, voices]
RECURSIVE ReadLoop(_, _, _)
ReadLoop(stream, toPlay, voices) ==
    IF good(stream)
    THEN With(getline(stream, <<>>), LAMBDA got :
             ReadLoop(got.stream, got.str,
                      IF IsVoice(toPlay) THEN Append(voices, toPlay) ELSE voices))
    ELSE [toPlay |-> toPlay, voices |-> voices]

\* MakeWave.cpp: the loop, then if (false == toPlay.empty()) push_back
MakeWaveVoices(text) ==
    With(getline(OpenFile(text), <<>>), LAMBDA first :
    With(ReadLoop(first.stream, first.str, <<>>), LAMBDA read :
        IF read.toPlay # <<>> THEN Append(read.voices, read.toPlay) ELSE read.voices))

\* main.cpp: the loop only
MainVoices(text) ==
    With(getline(OpenFile(text), <<>>), LAMBDA first :
        ReadLoop(first.stream, first.str, <<>>).voices)

\* the lines a file is written from: a comment, an empty line, and lines of music
MaxLines == 2
LineComment == <<"/", " ", "C">>
FileLines == {LineC, LineHigh, LineRest, LineComment, <<>>}

RECURSIVE Files(_)
Files(n) ==
    IF n = 0 THEN {<<>>}
    ELSE Files(n - 1) \cup {Append(f, l) : f \in Files(n - 1), l \in FileLines}

\* the text of a file with these lines
RECURSIVE FileText(_, _)
FileText(lines, terminated) ==
    IF lines = <<>> THEN <<>>
    ELSE Head(lines) \o (IF Len(lines) > 1 \/ terminated THEN <<"\n">> ELSE <<>>)
            \o FileText(Tail(lines), terminated)

\* the step between two samples, in ticks (1.0 / samplerate in the code)
RenderSteps == {1, 8}

\* the callback of MakeWave: [&](){ done = true; }
DoneCallback == [kind |-> "done", music |-> <<>>]

\* how long the song of a file may be played
RenderLimit == 4 * MaxTime

InitRender ==
    /\ VenueIdle /\ PlayIdle /\ VoiceIdle /\ ConcIdle /\ ChoirIdle /\ ParseIdle /\ EnvelopeIdle /\ CopyIdle
    /\ \E tool \in {"MakeWave", "main"}, lines \in Files(MaxLines), terminated \in BOOLEAN,
          timeDelta \in RenderSteps :
          wave = [tool |-> tool, lines |-> lines, terminated |-> terminated,
                  text |-> FileText(lines, terminated), step |-> timeDelta,
                  pc |-> "start", voices |-> <<>>, status |-> 0, done |-> FALSE,
                  samples |-> 0]

\* MakeWave.cpp main, up to the rendering loop: read the file (return 2 when
\* no line is left), queue the lines (return 3 when they do not parse), and
\* install the callback
LoadMakeWave ==
    /\ wave.tool = "MakeWave"
    /\ wave.pc = "start"
    /\ \E voices \in {MakeWaveVoices(wave.text)} :
          IF voices = <<>>
          THEN /\ wave' = [wave EXCEPT !.pc = "exit", !.status = 2]
               /\ UNCHANGED <<venueVars, nextId, copyVars>>
          ELSE \E r \in {queueMusic(Venue, voices, DefaultInstrument)} :
                  IF r.threw
                  THEN /\ wave' = [wave EXCEPT !.pc = "exit", !.status = 3, !.voices = voices]
                       /\ UNCHANGED <<venueVars, nextId, copyVars>>
                  ELSE /\ wave' = [wave EXCEPT !.pc = "render", !.voices = voices]
                       /\ SetVenue(addMusicCallback(r.venue, DoneCallback))
    /\ UNCHANGED <<last, playVars, voiceVars, concVars, choirVars, parseVars, envelopeVars, copyVars>>

\* main.cpp main and SoundPlayer::OnUserUpdate: read Music.txt, toggleLoop, and
\* queue the lines (an exception is caught and shown)
LoadMain ==
    /\ wave.tool = "main"
    /\ wave.pc = "start"
    /\ \E voices \in {MainVoices(wave.text)} :
       \E r \in {queueMusic(toggleLoop(Venue), voices, DefaultInstrument)} :
          /\ wave' = [wave EXCEPT !.pc = "play", !.voices = voices,
                                  !.status = IF r.threw THEN 3 ELSE 0]
          /\ SetVenue(r.venue)
    /\ UNCHANGED <<last, playVars, voiceVars, concVars, choirVars, parseVars, envelopeVars, copyVars>>

\* one pass of while (false == done): sdGetSample(0, curTime, step), and the
\* sample is appended to music
RenderSample ==
    /\ wave.pc = "render"
    /\ ~wave.done
    /\ internalTime <= RenderLimit
    /\ \E r \in {getSample(Venue, 0, wave.step)} :
          /\ SetVenue(r.venue)
          /\ wave' = [wave EXCEPT !.done = r.calls > 0, !.samples = @ + 1]
    /\ UNCHANGED <<last, playVars, voiceVars, concVars, choirVars, parseVars, envelopeVars, copyVars>>

\* the loop has ended: the samples are written and MakeWave returns 0
WriteWave ==
    /\ wave.pc = "render"
    /\ wave.done
    /\ wave' = [wave EXCEPT !.pc = "exit"]
    /\ UNCHANGED <<venueVars, nextId, last, playVars, voiceVars, concVars, choirVars, parseVars,
                   envelopeVars, copyVars>>

NextRender == LoadMakeWave \/ LoadMain \/ RenderSample \/ WriteWave

\* the loop is the only thread of MakeWave: it goes on while it can
SpecRender ==
    InitRender /\ [][NextRender]_vars /\ WF_vars(RenderSample) /\ WF_vars(WriteWave)

-----------------------------------------------------------------------------
(* The envelopes on their own: AREnvelope (SoundEngine.h) and ADSREnvelope  *)
(* (Harmonica.cpp), asked for the gain of one note at times that increase,  *)
(* with the release time Note::play passes: -1 while the note is held, its  *)
(* duration afterwards.  Here time is counted in 1/20480 s, so that the     *)
(* lengths of both envelopes are whole numbers, and levels in 1/20 (0.95 is *)
(* 19); a gain is the numerator of a fraction over GainScale(envelope).     *)

FineTicks == 10 * TicksPerSecond
LevelOne == 20

\* AREnvelope(): attackPeak(1.0), attackLength and releaseLength 240.0 / (64 * 256) * 0.1
FineAR ==
    [kind |-> "AR", attackPeak |-> LevelOne,
     attackLength |-> (240 * FineTicks) \div (64 * 256 * 10), decayLength |-> 0,
     sustainLevel |-> LevelOne, releaseLength |-> (240 * FineTicks) \div (64 * 256 * 10)]

\* Harmonica.cpp: ADSREnvelope(1.0, 0.0, 1.0, 0.95, 0.1)
HarmonicaADSR ==
    [kind |-> "ADSR", attackPeak |-> LevelOne, attackLength |-> 0, decayLength |-> FineTicks,
     sustainLevel |-> (95 * LevelOne) \div 100, releaseLength |-> FineTicks \div 10]

\* a length as a divisor: a length of 0 is never divided by
Width(length) == IF length = 0 THEN 1 ELSE length

\* what the gains of an envelope are fractions of
GainScale(env) ==
    IF env.kind = "AR" THEN env.attackLength * env.releaseLength
    ELSE Width(env.attackLength) * env.decayLength * env.releaseLength

\* AREnvelope::loud, as a numerator over attackLength * releaseLength
ARGain(env, time, releaseTime) ==
    IF releaseTime = -1
    THEN IF time < env.attackLength
         THEN time * env.attackPeak * env.releaseLength
         ELSE env.attackPeak * env.attackLength * env.releaseLength
    ELSE (IF releaseTime < env.attackLength
          THEN time * env.attackPeak
          ELSE env.attackPeak * env.attackLength)
         * (releaseTime + env.releaseLength - time)

\* ADSREnvelope::loud before the release factor, as a numerator over
\* attackLength * decayLength; the branch is chosen by phase (time itself
\* while the note is held, releaseTime afterwards), the value by time
ADSRLevel(env, time, phase) ==
    IF phase < env.attackLength
    THEN time * env.attackPeak * env.decayLength
    ELSE IF phase < env.attackLength + env.decayLength
         THEN (env.attackPeak * env.decayLength
                  - (time - env.attackLength) * (env.attackPeak - env.sustainLevel))
              * Width(env.attackLength)
         ELSE env.sustainLevel * Width(env.attackLength) * env.decayLength

\* ADSREnvelope::loud, as a numerator over attackLength * decayLength * releaseLength
ADSRGain(env, time, releaseTime) ==
    IF releaseTime = -1
    THEN ADSRLevel(env, time, time) * env.releaseLength
    ELSE ADSRLevel(env, time, releaseTime) * (releaseTime + env.releaseLength - time)

\* Envelope::loud
EnvelopeGain(env, time, releaseTime) ==
    IF env.kind = "AR" THEN ARGain(env, time, releaseTime)
    ELSE ADSRGain(env, time, releaseTime)

\* the durations of the notes: shorter than the attack, as long, and longer;
\* shorter than the decay (0.05 s, and the 0.4375 s of a quarter note at
\* tempo 120), and as long as the decay
Durations(env) ==
    IF env.kind = "AR" THEN {10, 20, 30, 280}
    ELSE {FineTicks \div 20, (7 * FineTicks) \div 16, FineTicks}

\* the steps of time
EnvelopeDeltas == {10, 512}

InitEnvelope ==
    /\ VenueIdle /\ PlayIdle /\ VoiceIdle /\ ConcIdle /\ ChoirIdle /\ ParseIdle /\ RenderIdle /\ CopyIdle
    /\ \E env \in {FineAR, HarmonicaADSR} : \E duration \in Durations(env) :
          tone = [envelope |-> env, duration |-> duration, time |-> -1, gain |-> 0]

\* Note::play at the next time, within the window of the note: the envelope
\* is asked with releaseTime -1 while noteTime < duration, with duration after
Sound(timeDelta) ==
    /\ tone.time + timeDelta <= tone.duration + tone.envelope.releaseLength
    /\ \E noteTime \in {IF tone.time = -1 THEN 0 ELSE tone.time + timeDelta} :
          tone' = [tone EXCEPT !.time = noteTime,
                               !.gain = EnvelopeGain(tone.envelope, noteTime,
                                           IF noteTime < tone.duration THEN -1
                                           ELSE tone.duration)]
    /\ UNCHANGED <<venueVars, nextId, last, playVars, voiceVars, concVars, choirVars, parseVars,
                   renderVars, copyVars>>

NextEnvelope == \E timeDelta \in EnvelopeDeltas : Sound(timeDelta)

SpecEnvelope == InitEnvelope /\ [][NextEnvelope]_vars

-----------------------------------------------------------------------------
(* A Voice and a copy of it.  Voice has no copy constructor of its own      *)
(* (158-178), so a copy (the one program.push_back(song) makes of every     *)
(* Voice of the Maestro given to queueMusic, or choir(choir)) takes the     *)
(* vector notes into storage of its own, index as it is, and the list       *)
(* activeNotes with the pointers it holds, which point to the notes of the  *)
(* Voice that was copied.  The model keeps the active set as positions;     *)
(* foreign counts the entries at the head of the copy's list that point to  *)
(* the original's notes (push_back adds at the end and remove_if keeps the  *)
(* order).  The original may be played before it is copied and may be       *)
(* destroyed after; the copy is played from the time 0, as the Venue plays  *)
(* a Maestro it was given.  Reading a note of a destroyed Voice is          *)
(* undefined: the note is then read as it was, or as one that never ends.   *)

\* the lines of the Voice that is copied
CopyLines == {LineC, LineLegato, LineChord, LineHigh}

InitCopy ==
    /\ VenueIdle /\ PlayIdle /\ VoiceIdle /\ ConcIdle /\ ChoirIdle /\ ParseIdle /\ RenderIdle
    /\ EnvelopeIdle
    /\ \E line \in CopyLines :
          twin = [NoTwin EXCEPT !.original =
                     buildVoiceFromString(line, DefaultInstrument, StandardNotes).voice]

\* Voice::play of the original, by its owner
PlayOriginal(timeDelta) ==
    /\ twin.alive
    /\ twin.time + timeDelta <= MaxTime
    /\ \E time \in {IF twin.time = -1 THEN 0 ELSE twin.time + timeDelta} :
          twin' = [twin EXCEPT !.original = VoicePlay(twin.original, time).voice,
                               !.time = time]
    /\ UNCHANGED <<venueVars, nextId, last, playVars, voiceVars, concVars, choirVars,
                   parseVars, renderVars, envelopeVars>>

\* the implicit copy constructor of Voice, memberwise
CopyVoice ==
    /\ twin.alive
    /\ ~twin.made
    /\ twin' = [twin EXCEPT !.copy = twin.original, !.made = TRUE,
                            !.foreign = Len(twin.original.activeNotes)]
    /\ UNCHANGED <<venueVars, nextId, last, playVars, voiceVars, concVars, choirVars,
                   parseVars, renderVars, envelopeVars>>

\* the Voice that was copied is destroyed
DestroyOriginal ==
    /\ twin.alive
    /\ twin.made
    /\ twin' = [twin EXCEPT !.alive = FALSE, !.original = NewVoice(<<>>)]
    /\ UNCHANGED <<venueVars, nextId, last, playVars, voiceVars, concVars, choirVars,
                   parseVars, renderVars, envelopeVars>>

\* the entries at the head of the copy's list that Voice::endPlay keeps
ForeignKept(v, foreign, time) ==
    Cardinality({i \in 1..foreign : ~NoteAfter(v.notes[v.activeNotes[i] + 1], time)})

\* Voice::play of the copy; played is the copy after the call when every
\* note is read as it was
PlayCopy(timeDelta) ==
    /\ twin.made
    /\ twin.clock + timeDelta <= MaxTime
    /\ \E time \in {IF twin.clock = -1 THEN 0 ELSE twin.clock + timeDelta} :
       \E played \in {VoicePlay(twin.copy, time).voice} :
       \E kept \in {ForeignKept(twin.copy, twin.foreign, time)} :
       \E dangling \in {twin.foreign > 0 /\ ~twin.alive} :
       \E stays \in (IF dangling THEN {TRUE, FALSE} ELSE {FALSE}) :
          twin' = [twin EXCEPT
                      !.copy = IF stays
                               THEN [played EXCEPT !.activeNotes =
                                        SubSeq(twin.copy.activeNotes, 1, twin.foreign)
                                        \o SubSeq(played.activeNotes, kept + 1,
                                                  Len(played.activeNotes))]
                               ELSE played,
                      !.foreign = IF stays THEN twin.foreign ELSE kept,
                      !.ub = @ \/ dangling,
                      !.clock = time]
    /\ UNCHANGED <<venueVars, nextId, last, playVars, voiceVars, concVars, choirVars,
                   parseVars, renderVars, envelopeVars>>

\* Voice::loop of the copy
LoopCopy ==
    /\ twin.made
    /\ twin.clock # -1
    /\ twin' = [twin EXCEPT !.copy = VoiceLoop(twin.copy), !.foreign = 0, !.clock = -1]
    /\ UNCHANGED <<venueVars, nextId, last, playVars, voiceVars, concVars, choirVars,
                   parseVars, renderVars, envelopeVars>>

NextCopy ==
    \/ \E timeDelta \in Deltas : PlayOriginal(timeDelta)
    \/ CopyVoice
    \/ DestroyOriginal
    \/ \E timeDelta \in Deltas : PlayCopy(timeDelta)
    \/ LoopCopy

SpecCopy == InitCopy /\ [][NextCopy]_vars

-----------------------------------------------------------------------------
(* Two threads.  The control thread calls queueMusic, clearQueue and        *)
(* toggleLoop; the audio thread calls getSample(0, ., timeDelta) over and   *)
(* over.  The Venue has no lock and no atomic: every statement of getSample *)
(* is a step of its own, and an operation on the list program (emplace_back *)
(* on one side; clear, pop_front, front().loop(), front().play() on the     *)
(* other) takes two steps, one to enter it and one to leave it with its     *)
(* effect.  When both threads are inside the list at once the C++ behaviour *)
(* is undefined; the model then lets the effect of the operation that ends  *)
(* take place or be lost, and records the race.  No callback is installed.  *)

ConcMusics == {SongA}
ConcDelta == 16

\* the places of the audio thread where it is inside an operation on program
AudioInside == audio \in {"clear", "pop", "loop", "play"}

\* is the other thread inside the list while this one's operation ends?
Racing == control = "insert" /\ AudioInside

\* program after an operation on the list that would make it result
ListEffect(result) ==
    /\ program' \in (IF Racing THEN {result, program} ELSE {result})
    /\ raced' = (raced \/ Racing)

InitConc == VenueIdle /\ PlayIdle /\ VoiceIdle /\ ConcIdle /\ ChoirIdle /\ ParseIdle /\ RenderIdle /\ EnvelopeIdle /\ CopyIdle

\* queueMusic: the Maestro is constructed (1196), then linked into the list
CtlQueueBegin(music) ==
    /\ control = "idle"
    /\ Len(program) < MaxQueue
    /\ nextId <= MaxEnqueued
    /\ \E built \in {Construct(music, DefaultInstrument)} :
          /\ built.error = ""
          /\ building' = [built.maestro EXCEPT !.id = nextId]
    /\ control' = "insert"
    /\ nextId' = nextId + 1
    /\ UNCHANGED <<venueVars, last, playVars, voiceVars, choirVars, parseVars, renderVars, envelopeVars, audio, doomed, due, raced, copyVars>>

CtlQueueEnd ==
    /\ control = "insert"
    /\ ListEffect(Append(program, building))
    /\ control' = "idle"
    /\ building' = NewMaestro(<<>>)
    /\ UNCHANGED <<stopPlaying, looping, internalTime, hollaback, nextId, last,
                   playVars, voiceVars, choirVars, parseVars, renderVars, envelopeVars, audio, doomed, due, copyVars>>

\* clearQueue: stopPlaying = true (1206); the Maestros queued by now are the
\* ones this request is to remove
CtlClear ==
    /\ control = "idle"
    /\ stopPlaying' = TRUE
    /\ doomed' = doomed \cup {program[k].id : k \in 1..Len(program)}
    /\ UNCHANGED <<program, looping, internalTime, hollaback, nextId, last,
                   playVars, voiceVars, choirVars, parseVars, renderVars, envelopeVars, audio, control, building, due, raced, copyVars>>

\* toggleLoop: looping = !looping (1211)
CtlToggle ==
    /\ control = "idle"
    /\ looping' = ~looping
    /\ UNCHANGED <<program, stopPlaying, internalTime, hollaback, nextId, last,
                   playVars, voiceVars, choirVars, parseVars, renderVars, envelopeVars, concVars, copyVars>>

\* getSample is entered on channel 0
AudStart ==
    /\ audio = "idle"
    /\ audio' = "stop?"
    /\ due' = doomed
    /\ UNCHANGED <<venueVars, nextId, last, playVars, voiceVars, choirVars, parseVars, renderVars, envelopeVars, control, building,
                   doomed, raced, copyVars>>

\* if (true == stopPlaying) (1225)
AudTestStop ==
    /\ audio = "stop?"
    /\ audio' = IF stopPlaying THEN "clear" ELSE "front"
    /\ UNCHANGED <<venueVars, nextId, last, playVars, voiceVars, choirVars, parseVars, renderVars, envelopeVars, control, building,
                   doomed, due, raced, copyVars>>

\* program.clear() (1227)
AudClear ==
    /\ audio = "clear"
    /\ ListEffect(<<>>)
    /\ audio' = "unset"
    /\ UNCHANGED <<stopPlaying, looping, internalTime, hollaback, nextId, last,
                   playVars, voiceVars, choirVars, parseVars, renderVars, envelopeVars, control, building, doomed, due, copyVars>>

\* stopPlaying = false; internalTime = -1.0 (1228-1229)
AudUnset ==
    /\ audio = "unset"
    /\ stopPlaying' = FALSE
    /\ internalTime' = -1
    /\ audio' = "front"
    /\ UNCHANGED <<program, looping, hollaback, nextId, last, playVars, voiceVars, choirVars, parseVars, renderVars, envelopeVars,
                   control, building, doomed, due, raced, copyVars>>

\* if (0U == program.size()) return 0.0; if (program.front().finished()) ...
\* if (looping) (1235-1241)
AudFront ==
    /\ audio = "front"
    /\ audio' = IF NothingToPlay(Venue) THEN "idle"
                ELSE IF ~MaestroFinished(Head(program)) THEN "play"
                ELSE IF looping THEN "loop" ELSE "pop"
    /\ UNCHANGED <<venueVars, nextId, last, playVars, voiceVars, choirVars, parseVars, renderVars, envelopeVars, control, building,
                   doomed, due, raced, copyVars>>

\* program.front().loop(); internalTime = -1.0 (1243, 1249)
AudLoop ==
    /\ audio = "loop"
    /\ ListEffect(<<MaestroLoop(Head(program))>> \o Tail(program))
    /\ internalTime' = -1
    /\ audio' = "play"
    /\ UNCHANGED <<stopPlaying, looping, hollaback, nextId, last, playVars, voiceVars, choirVars, parseVars, renderVars, envelopeVars,
                   control, building, doomed, due, copyVars>>

\* program.pop_front(); internalTime = -1.0; if (0U == program.size()) return 0.0
\* (1247-1258)
AudPop ==
    /\ audio = "pop"
    /\ ListEffect(Tail(program))
    /\ internalTime' = -1
    /\ audio' = IF program' = <<>> THEN "idle" ELSE "play"
    /\ UNCHANGED <<stopPlaying, looping, hollaback, nextId, last, playVars, voiceVars, choirVars, parseVars, renderVars, envelopeVars,
                   control, building, doomed, due, copyVars>>

\* the time step and return program.front().play(internalTime) (1259-1267)
AudPlay ==
    /\ audio = "play"
    /\ internalTime <= MaxTime
    /\ \E s4 \in {AdvanceTime(Venue, ConcDelta)} :
          /\ internalTime' = s4.internalTime
          /\ ListEffect(<<MaestroPlay(Head(program), s4.internalTime).maestro>>
                        \o Tail(program))
    /\ audio' = "idle"
    /\ UNCHANGED <<stopPlaying, looping, hollaback, nextId, last, playVars, voiceVars, choirVars, parseVars, renderVars, envelopeVars,
                   control, building, doomed, due, copyVars>>

NextConc ==
    \/ \E music \in ConcMusics : CtlQueueBegin(music)
    \/ CtlQueueEnd
    \/ CtlClear
    \/ CtlToggle
    \/ AudStart
    \/ AudTestStop
    \/ AudClear
    \/ AudUnset
    \/ AudFront
    \/ AudLoop
    \/ AudPop
    \/ AudPlay

SpecConc == InitConc /\ [][NextConc]_vars

-----------------------------------------------------------------------------
(* Properties of the Venue under Spec.                                      *)

Ids(queue) == [k \in 1..Len(queue) |-> queue[k].id]

\* the step is a call getSample(0, ., .)
Sampled == last'.op = "getSample" /\ last'.channel = 0

\* C1: with looping off and no stop request, the Maestros are played in the
\* order they were enqueued.  A getSample(0, ., dt) call that finds the head
\* unfinished leaves the queue as it is and takes the sample from that head, at
\* internalTime 0 for its first sample and dt later for the next ones; the head
\* is dequeued only when it reports finished, and then it is the head that is
\* dequeued, and the Maestro behind it gives the sample of the same call, at
\* internalTime 0.  The Maestros that give samples do so in the order of their
\* arrival (ids never decrease).
C1_PlayedInOrder ==
    [][ (Sampled /\ ~stopPlaying /\ ~looping /\ program # <<>>) =>
          /\ last'.playedId # 0 /\ last'.prevPlayed # 0 => last'.prevPlayed <= last'.playedId
          /\ IF ~MaestroFinished(Head(program))
             THEN /\ last'.popped = 0
                  /\ Ids(program') = Ids(program)
                  /\ last'.playedId = Head(program).id
                  /\ last'.playedAt = IF internalTime = -1 THEN 0 ELSE internalTime + last'.dt
                  /\ internalTime' = last'.playedAt
             ELSE /\ last'.popped = Head(program).id
                  /\ Len(program) > 1 =>
                        /\ Ids(program') = Ids(Tail(program))
                        /\ last'.playedId = program[2].id
                        /\ last'.playedAt = 0
                        /\ internalTime' = 0
      ]_vars

\* C1 witness: song A was dequeued and song B, behind it, gave its first sample
C1_Witness ==
    /\ last.op = "getSample" /\ last.popped # 0 /\ ~last.cleared /\ last.calls = 0
    /\ last.playedId = last.popped + 1 /\ last.playedAt = 0
    /\ last.prevPlayed = last.popped
    /\ ~looping

\* C2: with looping off and no stop request pending, the getSample call that
\* dequeues the last Maestro of the queue invokes the idle callback exactly
\* once; a getSample call that finds the queue empty returns 0, leaves it empty
\* and does not invoke the callback.
C2_IdleOnce ==
    [][ (Sampled /\ ~stopPlaying) =>
          /\ (~looping /\ Len(program) = 1 /\ MaestroFinished(Head(program))
              /\ hollaback.kind # "null") =>
                 /\ last'.popped = Head(program).id
                 /\ last'.calls = 1
                 /\ hollaback.kind = "done" => program' = <<>> /\ last'.ret = 0
          /\ program = <<>> =>
                 /\ last'.calls = 0 /\ last'.ret = 0 /\ UNCHANGED venueVars
      ]_vars

\* C2 witness: the call after the one that dequeued the last Maestro: the queue
\* was found empty, a Maestro had played, and the callback enqueues nothing
C2_Witness ==
    /\ last.op = "getSample" /\ last.channel = 0 /\ last.calls = 0 /\ last.ret = 0
    /\ last.popped = 0 /\ ~last.cleared
    /\ last.prevPlayed # 0 /\ program = <<>> /\ hollaback.kind = "done" /\ ~looping

\* the sample a fresh Maestro of the callback's music gives at internalTime 0
FirstSample(music) ==
    MaestroPlay(Construct(music, DefaultInstrument).maestro, 0).sample

\* C3: a getSample(0, ., .) call that finds the stop flag set removes every
\* Maestro that was queued, clears the flag and invokes the idle callback if
\* one is installed; if the callback enqueued music, the sample returned is
\* that music's first sample, taken at internalTime 0, otherwise the call
\* returns 0 and leaves internalTime at -1.
C3_StopClears ==
    [][ (Sampled /\ stopPlaying) =>
          /\ last'.cleared /\ ~stopPlaying'
          /\ \A k \in 1..Len(program') : program'[k].id >= nextId
          /\ last'.calls >= (IF hollaback.kind = "null" THEN 0 ELSE 1)
          /\ hollaback.kind = "null" => last'.calls = 0
          /\ IF hollaback.kind = "queue"
             THEN /\ program' # <<>>
                  /\ last'.playedId >= nextId /\ last'.playedAt = 0 /\ internalTime' = 0
                  /\ last'.ret = FirstSample(hollaback.music)
             ELSE /\ program' = <<>> /\ last'.ret = 0 /\ internalTime' = -1
                  /\ last'.playedId = 0
      ]_vars

\* C3 witness: a stop request was served while music was queued, and the
\* callback's music gave the sample of the same call
C3_Witness ==
    /\ last.op = "getSample" /\ last.cleared /\ last.calls = 1
    /\ last.playedId > 1 /\ last.playedAt = 0 /\ last.prevPlayed # 0
    /\ hollaback.kind = "queue"

\* a line of the music fails to parse, or the configuration is invalid
Invalid(music, instruments) ==
    \/ \E k \in 1..Len(music) :
          buildVoiceFromString(music[k], instruments, StandardNotes).error # ""
    \/ NUL \notin DOMAIN instruments

\* C6 as stated: whenever a line fails to parse or the configuration is
\* invalid, queueMusic raises the error and leaves the Venue as it was.
C6_Original ==
    [][ (last'.op = "queueMusic" /\ Invalid(last'.music, last'.instruments)) =>
          last'.threw /\ UNCHANGED venueVars ]_vars

\* C6 amended: queueMusic raises an error exactly when one of the lines passed
\* fails to parse or is parsed under an invalid configuration (so not when no
\* line is passed); when it raises, the Venue is exactly as before the call, and
\* otherwise exactly one Maestro is appended.
C6_AtomicQueue ==
    [][ last'.op = "queueMusic" =>
          /\ last'.threw <=> (\E k \in 1..Len(last'.music) :
                buildVoiceFromString(last'.music[k], last'.instruments, StandardNotes).error # "")
          /\ (Len(last'.music) # 0 /\ Invalid(last'.music, last'.instruments)) => last'.threw
          /\ last'.threw => UNCHANGED venueVars /\ nextId' = nextId
          /\ ~last'.threw => /\ Len(program') = Len(program) + 1
                             /\ SubSeq(program', 1, Len(program)) = program
      ]_vars

\* C6 witness: a call whose first line parses and whose second does not raised
\* the error while music was queued
C6_Witness ==
    /\ last.op = "queueMusic" /\ last.threw /\ last.music = SongBad
    /\ last.instruments = DefaultInstrument /\ program # <<>>

\* C8: getSample on a channel other than 0 returns 0, invokes no callback and
\* leaves the queue (with every Voice's cursor and active notes), the flags
\* and internalTime as they were.
C8_OtherChannel ==
    [][ (last'.op = "getSample" /\ last'.channel # 0) =>
          /\ last'.ret = 0 /\ last'.calls = 0
          /\ UNCHANGED venueVars ]_vars

\* C8 witness: a call on channel 1 while a Maestro is playing and a stop
\* request is pending
C8_Witness ==
    /\ last.op = "getSample" /\ last.channel # 0
    /\ program # <<>> /\ internalTime > 0 /\ stopPlaying
    /\ hollaback.kind # "null"

-----------------------------------------------------------------------------
(* Properties of a playback at a fixed rate, under SpecPlay.                *)

\* C7: every value returned by getSample lies in [-1, 1] (for one Voice in the
\* choir it is the value returned by Voice::play).
C7_Original ==
    \A i \in 1..Len(trace) : Abs(trace[i].ret) <= SampleOne

\* the length of the song as written (the longest line's), and the end of its
\* last note: the latest startTime + duration + release of all its Voices
SongLength(music) == Construct(music, DefaultInstrument).length

EndOfSong(music) ==
    LET choir == Construct(music, DefaultInstrument).maestro.choir
        ends  == UNION {{NoteEnd(choir[k].notes[n]) : n \in 1..Len(choir[k].notes)} :
                          k \in 1..Len(choir)}
    IN  CHOOSE e \in ends : \A f \in ends : f <= e

\* the number of getSample calls of one pass over the song: the calls at
\* internalTime 0, timeDelta, 2 timeDelta, ... up to the first one past the end
\* of the last note, which is the call that leaves the Maestro finished
PassCalls(music, timeDelta) == (EndOfSong(music) \div timeDelta) + 2

-----------------------------------------------------------------------------
(* Properties of a Voice on its own, under SpecVoice.                       *)

\* the note of the Voice at the (0-based) position p is in its release at now
InRelease(p) == now - voice.notes[p + 1].startTime >= voice.notes[p + 1].duration

\* C10: a release tail that extends past the start of the next note is
\* truncated there: once the next note has started, the sum Voice::play
\* returns holds no contribution of the earlier note in its release.
C10_Original ==
    \A i \in 1..Len(heard.summed) :
       LET p == heard.summed[i]
       IN  (/\ p + 2 <= Len(voice.notes)
            /\ voice.notes[p + 2].startTime > voice.notes[p + 1].startTime
            /\ voice.notes[p + 2].startTime <= now
            /\ InRelease(p))
           => NotePlay(voice.notes[p + 1], now) = 0

\* the sum of the volumes of the notes of a Voice, in 1/VolOne
RECURSIVE SumVolumes(_, _)
SumVolumes(notes, k) ==
    IF k > Len(notes) THEN 0 ELSE notes[k].volume + SumVolumes(notes, k + 1)

\* C11: whatever non-decreasing times Voice::play is called at, the absolute
\* value of what it returns is at most the sum of the volumes of the Voice's
\* notes (the square wave is within [-1, 1], the AR envelope's peak is 1).
C11_Original ==
    now # -1 => Abs(heard.sample) <= SumVolumes(voice.notes, 1) * GainOne * OscOne

-----------------------------------------------------------------------------
(* Properties of a Maestro on its own, under SpecMaestro.                   *)

RECURSIVE SumSeq(_, _)
SumSeq(q, k) == IF k > Len(q) THEN 0 ELSE q[k] + SumSeq(q, k + 1)

\* C12: Maestro::play returns the sum of what Voice::play returns for each of
\* its voices, divided by the number of its voices, whether finished or not,
\* and 0 when it has no voice; Maestro::finished holds exactly when every
\* voice is finished.
C12_MaestroMean ==
    beat # -1 =>
       /\ Len(sung.parts) = Len(solo.choir)
       /\ Len(solo.choir) = 0 => sung.sample = 0
       /\ sung.sample * Len(solo.choir) = SumSeq(sung.parts, 1) * ChoirOne
       /\ sung.finished <=> \A k \in 1..Len(solo.choir) :
                                /\ solo.choir[k].index = Len(solo.choir[k].notes)
                                /\ solo.choir[k].activeNotes = <<>>

\* C12 witness: a call on two voices of which one was finished before the
\* call and the other still sounds: the sample is half of what that one gave
C12_Witness ==
    /\ beat # -1
    /\ Len(solo.choir) = 2
    /\ sung.done[1] /\ ~sung.done[2]
    /\ sung.parts[2] # 0
    /\ sung.sample * 2 = sung.parts[2] * ChoirOne
    /\ ~sung.finished

\* the notes a line emits
NotesOf(line) == buildVoiceFromString(line, DefaultInstrument, StandardNotes).voice.notes

\* C13: a Maestro built from text holds, in the order of the lines, exactly the
\* voices of the lines that emitted at least one note; a line of rests or
\* state commands only leaves no voice, and does not count in the divisor.
C13_EmptyDropped ==
    LET lines == SelectSeq(score, LAMBDA line : NotesOf(line) # <<>>)
    IN  /\ Len(solo.choir) = Len(lines)
        /\ \A k \in 1..Len(lines) : solo.choir[k].notes = NotesOf(lines[k])
        /\ beat # -1 => sung.sample * Len(lines) = SumSeq(sung.parts, 1) * ChoirOne

\* C13 witness: a song of four lines, two of them without a note, gave a
\* sample that is the mean of two voices
C13_Witness ==
    /\ score = SongSolo
    /\ Len(solo.choir) = 2
    /\ beat # -1
    /\ sung.sample # 0
    /\ sung.sample * 2 = (sung.parts[1] + sung.parts[2]) * ChoirOne

-----------------------------------------------------------------------------
(* Properties of the parser, under SpecParse.  A step is one command; the   *)
(* text it read is what lies between the reader's places before and after.  *)

\* the step read a command and the parser went on or threw
Passed == parse' # parse /\ ~parse'.crashed

\* the characters of the command the step read, as the reader gives them
Consumed ==
    LET to   == Min(parse'.command.location, Len(parse.command.input))
        raw  == SubSeq(parse.command.input, parse.command.location + 1, to)
        seen == SelectSeq(raw, LAMBDA c : ~isspace(c))
    IN  [i \in 1..Len(seen) |-> toupper(seen[i])]

\* the note the step emitted
Emitted == parse'.notes[Len(parse'.notes)]
EmittedIndex == parse'.indices[Len(parse'.indices)]

\* the step emitted exactly one note, at the cursor
EmitsOne ==
    /\ parse'.error = ""
    /\ Len(parse'.notes) = Len(parse.notes) + 1
    /\ SubSeq(parse'.notes, 1, Len(parse.notes)) = parse.notes
    /\ Emitted.startTime = parse.time
    /\ Emitted.instrument = parse.instrument
    /\ EmittedIndex \in 0..(totalNotes - 1) => Emitted.frequency = StandardNotes[EmittedIndex + 1]

\* the step emitted nothing
EmitsNone == parse'.error = "" /\ parse'.notes = parse.notes

\* the semitone of a note letter, as the specification lists it
LetterSemitone ==
    [c \in {"A", "B", "C", "D", "E", "F", "G"} |->
        CASE c = "A" -> 9 [] c = "B" -> 11 [] c = "C" -> 0 [] c = "D" -> 2
          [] c = "E" -> 4 [] c = "F" -> 5 [] c = "G" -> 7]

\* the line "T120 L4 O4 C"
LineRoundTrip == LineDefaults \o <<"C">>

\* C14: a note letter without suffixes emits exactly one note, with the pitch
\* index currentOctave * 12 + semitone, at the cursor, lasting noteLength *
\* articulation, with the current volume, and moves the cursor by noteLength =
\* 240 / (beatNote * tempo); "T120 L4 O4 C" gives one note at 0 that lasts
\* 0.4375 s with the pitch index 48.
C14_PlainNote ==
    /\ [][ (Passed /\ Len(Consumed) = 1 /\ Consumed[1] \in DOMAIN LetterSemitone) =>
             /\ EmitsOne
             /\ EmittedIndex = parse.currentOctave * 12 + LetterSemitone[Consumed[1]]
             /\ Emitted.duration * 8 = parse.noteLength * parse.articulation
             /\ Emitted.volume = parse.volume
             /\ parse'.time = parse.time + parse.noteLength
             /\ parse.noteLength * parse.currentBeatNote * parse.currentTempo
                    = 240 * TicksPerSecond ]_vars
    /\ [](  (parse.command.input = LineRoundTrip /\ done(parse.command)) =>
             /\ parse.error = ""
             /\ parse.indices = <<48>>
             /\ Len(parse.notes) = 1
             /\ parse.notes[1].startTime = 0
             /\ parse.notes[1].duration * 10000 = 4375 * TicksPerSecond
             /\ parse.notes[1].frequency = StandardNotes[49] )

\* C14 witness: the line "T120 L4 O4 C" was read to its end and gave one note
C14_Witness ==
    /\ parse.command.input = LineRoundTrip
    /\ done(parse.command)
    /\ Len(parse.notes) = 1
    /\ parse.indices = <<48>>
    /\ parse.time * 2 = TicksPerSecond

\* the place of a suffix in the order the specification lists: sharps, flats,
\* length digits, dots, tie, staccato, accent, chord continuation
Rank(c) ==
    CASE c \in {"+", "#"} -> 1
      [] c = "-"  -> 2
      [] IsDigit(c) -> 3
      [] c = "."  -> 4
      [] c = "_"  -> 5
      [] c = "'"  -> 6
      [] c = "^"  -> 7
      [] c = ","  -> 8
      [] OTHER    -> 9

\* the text is a note letter with suffixes in that order
IsNote(text) == Len(text) > 0 /\ text[1] \in DOMAIN LetterSemitone
InOrder(text) == \A i, j \in 2..Len(text) : i < j => Rank(text[i]) <= Rank(text[j])

Count(text, chars) == Cardinality({i \in 1..Len(text) : text[i] \in chars})

\* the number the digits of the text spell
RECURSIVE Spelled(_, _, _)
Spelled(text, k, number) ==
    IF k > Len(text) THEN number
    ELSE Spelled(text, k + 1, IF IsDigit(text[k]) THEN number * 10 + DigitValue(text[k])
                                                  ELSE number)

\* the base length of the note the step read: of its length digits, or noteLength
BaseLength ==
    IF Count(Consumed, {Digits[i] : i \in 1..Len(Digits)}) > 0
    THEN (240 * TicksPerSecond) \div (Spelled(Consumed, 1, 0) * parse.currentTempo)
    ELSE parse.noteLength

\* the part of its length the note the step read sounds for, in eighths: the
\* articulation, unless a tie or a staccato suffix replaces it
SoundingEighths ==
    IF Count(Consumed, {"'"}) > 0 THEN 6
    ELSE IF Count(Consumed, {"_"}) > 0 THEN 8 ELSE parse.articulation

\* C15: every dot adds half of what the dot before it added, the first one
\* half of the base length, so that a note of base length l with k dots has
\* the length l * (2 - 2^-k); it sounds for that length times the
\* articulation and the cursor moves by that length; "C4.." is one note of
\* 1/4 + 1/8 + 1/16 of a whole note.
C15_Dotted ==
    [][ (/\ Passed /\ parse'.error = ""
         /\ IsNote(Consumed) /\ InOrder(Consumed)
         /\ Count(Consumed, {"."}) > 0) =>
          LET k == Count(Consumed, {"."})
              l == BaseLength
          IN  /\ EmitsOne
              /\ Emitted.duration * 8 * Pow2(k) = l * (Pow2(k + 1) - 1) * SoundingEighths
              /\ Count(Consumed, {","}) = 0 =>
                     (parse'.time - parse.time) * Pow2(k) = l * (Pow2(k + 1) - 1)
              /\ Consumed = <<"C", "4", ".", ".">> =>
                     (parse'.time - parse.time) * 16 * parse.currentTempo
                         = 7 * 240 * TicksPerSecond ]_vars

\* C15 witness: the line "C4.." was read: one note, and the cursor at 7/16 of
\* a whole note, which lasts 2 s at the tempo 120
C15_Witness ==
    /\ parse.command.input = <<"C", "4", ".", ".">>
    /\ done(parse.command)
    /\ parse.error = ""
    /\ Len(parse.notes) = 1
    /\ parse.time * 16 = 7 * 2 * TicksPerSecond
    /\ parse.notes[1].duration * 8 = parse.time * 7

\* the lines "C,E,G" and "C8,E.,G2."
LineTriad == <<"C", ",", "E", ",", "G">>
LineTriadLengths == <<"C", "8", ",", "E", ".", ",", "G", "2", ".">>

\* C16: a note that ends with the chord continuation ',' is emitted without
\* moving the cursor, so the next note starts at the same time; "C,E,G" gives
\* three notes that all start at 0, and the cursor moves once, after G, by
\* the length of G.
C16_Chord ==
    /\ [][ (Passed /\ parse'.error = "" /\ IsNote(Consumed)) =>
             /\ EmitsOne
             /\ Consumed[Len(Consumed)] = "," => parse'.time = parse.time
             /\ Count(Consumed, {","}) = 0 => parse'.time > parse.time ]_vars
    /\ []( (parse.command.input \in {LineTriad, LineTriadLengths} /\ done(parse.command)) =>
             /\ parse.error = ""
             /\ parse.indices = <<48, 52, 55>>
             /\ \A k \in 1..3 : parse.notes[k].startTime = 0
             /\ parse.time * 7 = parse.notes[3].duration * 8 )

\* C16 witness: the line "C8,E.,G2." was read: three notes at 0, eighth, dotted
\* quarter and dotted half, and the cursor at the length of the dotted half
C16_Witness ==
    /\ parse.command.input = LineTriadLengths
    /\ done(parse.command)
    /\ Len(parse.notes) = 3
    /\ \A k \in 1..3 : parse.notes[k].startTime = 0
    /\ parse.notes[1].duration < parse.notes[2].duration
    /\ parse.notes[2].duration < parse.notes[3].duration
    /\ parse.time * 2 = 3 * TicksPerSecond

\* the digits of the text, and whether they spell a number of ten digits or
\* more (one that is at least 10^9)
DigitsOf(text) == SelectSeq(text, IsDigit)
Long(text) == Len(DigitsOf(text)) > 9 /\ DigitsOf(text)[1] # "0"

\* the number the text gives the command is in the range lo..hi
Given(text, lo, hi) == ~Long(text) /\ Spelled(text, 1, 0) \in lo..hi

\* C17: N n with 1 <= n <= 108 emits one note with the pitch index n - 1, that
\* lasts noteLength * articulation, with the current volume; N0 emits no note;
\* both move the cursor by noteLength; every other n is a parse error.
C17_Original ==
    [][ (Passed /\ Len(Consumed) > 1 /\ Consumed[1] = "N") =>
          IF Given(Consumed, 1, totalNotes)
          THEN /\ EmitsOne
               /\ EmittedIndex = Spelled(Consumed, 1, 0) - 1
               /\ Emitted.duration * 8 = parse.noteLength * parse.articulation
               /\ Emitted.volume = parse.volume
               /\ parse'.time = parse.time + parse.noteLength
          ELSE IF Given(Consumed, 0, 0)
               THEN EmitsNone /\ parse'.time = parse.time + parse.noteLength
               ELSE parse'.error # "" ]_vars

\* C18: after every accepted command currentOctave is within 0..8 and the
\* pitch index of every note emitted is within 0..107, whatever the number of
\* digits of the numbers in the line.
C18_Original ==
    (parse.error = "" /\ ~parse.crashed) =>
       /\ parse.currentOctave \in 0..(octavesImplemented - 1)
       /\ \A k \in 1..Len(parse.indices) : parse.indices[k] \in 0..(totalNotes - 1)

\* the volume of a dynamics word, in eighths (0: not a dynamics word); the
\* word the step read is taken without the ';' that may end it
Dynamics(word) ==
    CASE word = <<"V", "P", "P", "P">> -> 1
      [] word = <<"V", "P", "P">> -> 2
      [] word = <<"V", "P">> -> 3
      [] word = <<"V", "M", "P">> -> 4
      [] word = <<"V", "M", "F">> -> 5
      [] word = <<"V", "F">> -> 6
      [] word = <<"V", "F", "F">> -> 7
      [] word = <<"V", "F", "F", "F">> -> 8
      [] OTHER -> 0

NotSemicolon(c) == c # ";"
WordRead == Dynamics(SelectSeq(Consumed, NotSemicolon))

\* C19: the current volume and the volume of every note emitted are within
\* [0, 1]: V n is accepted exactly when 0 <= n <= 100 and sets the volume to
\* n / 100, a dynamics word sets 1/8 .. 8/8, and every accent '^' adds 1/8 to
\* the note's volume, which stops at 1.
C19_Original ==
    /\ []( (parse.error = "" /\ ~parse.crashed) =>
             /\ parse.volume \in 0..VolOne
             /\ \A k \in 1..Len(parse.notes) : parse.notes[k].volume \in 0..VolOne )
    /\ [][ /\ (Passed /\ Len(Consumed) > 1 /\ Consumed[1] = "V" /\ IsDigit(Consumed[2])) =>
               IF Given(Consumed, 0, 100)
               THEN parse'.error = "" /\ parse'.volume * 100 = Spelled(Consumed, 1, 0) * VolOne
               ELSE parse'.error # ""
           /\ (Passed /\ WordRead # 0) =>
               /\ parse'.error = ""
               /\ parse'.volume * 8 = WordRead * VolOne
           /\ (Passed /\ parse'.error = "" /\ IsNote(Consumed)) =>
               /\ parse'.volume = parse.volume
               /\ Emitted.volume =
                     Min(parse.volume + Count(Consumed, {"^"}) * (VolOne \div 8), VolOne) ]_vars

\* C20: a note whose suffixes are not in the listed order (sharps, flats,
\* length digits, dots, tie, staccato, accent, chord continuation) is rejected
\* with a parse error.
C20_Original ==
    [][ (Passed /\ IsNote(Consumed) /\ ~InOrder(Consumed)) => parse'.error # "" ]_vars

\* C22: buildVoiceFromString throws a configuration error when the pitch
\* table does not have 108 entries and when the instrument map has no NUL key,
\* whatever the line is, the empty line included, and before any note is
\* emitted.
C22_Configuration ==
    /\ Len(setup.pitches) # 108 =>
          parse.error = "Note array of invalid size." /\ parse.notes = <<>>
    /\ (Len(setup.pitches) = 108 /\ NUL \notin DOMAIN setup.instruments) =>
          parse.error = "No default instrument in instrument list." /\ parse.notes = <<>>

\* C22 witness: the empty line was given with a table of 109 entries and with
\* the default instruments, and was rejected
C22_Witness ==
    /\ setup.input = <<>>
    /\ Len(setup.pitches) = 109
    /\ setup.instruments = DefaultInstrument
    /\ parse.error = "Note array of invalid size."

\* the notes emitted so far with pitch index n all have frequency f
Tuned(n, f) ==
    \A k \in 1..Len(parse.notes) : parse.indices[k] = n => parse.notes[k].frequency = f

\* C23 (amended): the standard pitch table has 108 entries, indexed 0 = C0 to
\* 107 = B8; pitches[57] is A4 = 440.0 exactly, pitches[69] is A5 = 880.0 and
\* pitches[45] is A3 = 220.0.  (C0 is 16.35 Hz and B8 is 7902.13 Hz: 32 and
\* 15804 in 1/2 Hz, rounded down.)
C23_PitchTable ==
    /\ Len(StandardNotes) = 108
    /\ StandardNotes[57 + 1] = A440
    /\ Tuned(57, A440) /\ Tuned(69, 2 * A440) /\ Tuned(45, A440 \div 2)
    /\ Tuned(0, 32) /\ Tuned(107, 15804)

\* C23 witness: "O3 A > A > A" was read to its end: the three notes have the
\* indices 45, 57 and 69 and the frequencies 220, 440 and 880 Hz
C23_Witness ==
    /\ setup.input = LineThreeAs
    /\ done(parse.command)
    /\ parse.indices = <<45, 57, 69>>
    /\ [k \in 1..3 |-> parse.notes[k].frequency] = <<A440 \div 2, A440, 2 * A440>>

\* C23 as stated: pitches[45] is A4 = 440.0 and pitches[57] is A5 = 880.0
C23_Original ==
    /\ Len(StandardNotes) = 108
    /\ Tuned(45, A440) /\ Tuned(57, 2 * A440)
    /\ Tuned(0, 32) /\ Tuned(107, 15804)

\* the notes of "T120 L4 O4 C D E F"
ScaleNotes == buildVoiceFromString(LineScale, DefaultInstrument, StandardNotes).voice.notes

\* the time in ticks of a time written in 1/16 s
Sixteenths(n) == (n * TicksPerSecond) \div 16

\* C24 (amended): for "T120 L4 O4 C D E F" the four notes start at 0, 0.5, 1.0
\* and 1.5 s (the score is 4 * 0.5 s long); each is held for 7/8 of a quarter,
\* 0.4375 s, and the release of the default AR envelope is 3/2048 s, so the
\* Voice produces sound while a note is held or released, the last time before
\* 1.9375 s + 3/2048 s (about 1.939 s); it does not report finished up to
\* then, and does after the first call later than that.
C24_Scale ==
    /\ [k \in 1..Len(ScaleNotes) |-> ScaleNotes[k].startTime]
           = <<0, Sixteenths(8), Sixteenths(16), Sixteenths(24)>>
    /\ buildVoiceFromString(LineScale, DefaultInstrument, StandardNotes).time = Sixteenths(32)
    /\ voice.notes = ScaleNotes =>
          /\ \A k \in 1..4 :
                (ScaleNotes[k].startTime < now /\ now < ScaleNotes[k].startTime + Sixteenths(7) + 3)
                   => heard.sample # 0
          /\ VoiceFinished(voice) <=> now > Sixteenths(31) + 3

\* C24 witness: the scale was played at 1.9375 s + 2/2048 s, in the release of
\* the last note, and sounded
C24_Witness ==
    /\ voice.notes = ScaleNotes
    /\ now = Sixteenths(31) + 2
    /\ heard.sample # 0
    /\ ~VoiceFinished(voice)

\* C24 as stated: the Voice of the scale does not report finished before the
\* end of the last quarter note at 2.0 s (and not before 2.05 s)
C24_Original ==
    (voice.notes = ScaleNotes /\ now < Sixteenths(32)) => ~VoiceFinished(voice)

\* the notes of "T60 L1 O4 A"
WholeNotes == buildVoiceFromString(LineWhole, DefaultInstrument, StandardNotes).voice.notes

\* the amplitude of the last sample of the Voice, in 1/VoiceOne
Amplitude == IF heard.sample < 0 THEN -heard.sample ELSE heard.sample

\* C25 (amended): for "T60 L1 O4 A" the single note (440 Hz, volume 0.5) is
\* held for 7/8 of 4 s = 3.5 s before its release begins: at t = 2.0 s, as
\* at every time from the end of the attack to 3.5 s, the gain is 1.0 and the
\* amplitude 1.0 * 0.5 = 0.5; the release takes 3/2048 s: one third into it
\* the amplitude is 2/3 * 0.5, two thirds into it 1/3 * 0.5, and at 4.025 s
\* the note has long been dropped and the Voice is silent and finished.
C25_Whole ==
    /\ WholeNotes = <<NewNote(makeSquareWaveInstrument, A440, 0,
                              (4 * TicksPerSecond * 7) \div 8, VolOne \div 2)>>
    /\ voice.notes = WholeNotes =>
          /\ (3 <= now /\ now < Sixteenths(56)) => Amplitude = VoiceOne \div 2
          /\ now = Sixteenths(56) + 1 => Amplitude = VoiceOne \div 3
          /\ now = Sixteenths(56) + 2 => Amplitude = VoiceOne \div 6
          /\ now >= Sixteenths(64) => Amplitude = 0 /\ VoiceFinished(voice)

\* C25 witness: the whole note was played at 3.5 s + 1/2048 s, in its
\* release, with amplitude 1/3
C25_Witness ==
    /\ voice.notes = WholeNotes
    /\ now = Sixteenths(56) + 1
    /\ Amplitude = VoiceOne \div 3

\* C25 as stated: the note is held for 4 s (amplitude 0.5 from the end of the
\* attack to 4.0 s), and at 4.025 s (8243 or 8244 ticks) it is in its release
\* with an amplitude of about 0.25 (between 0.2 and 0.3)
C25_Original ==
    voice.notes = WholeNotes =>
       /\ (3 <= now /\ now < Sixteenths(64)) => Amplitude = VoiceOne \div 2
       /\ now \in {4 * TicksPerSecond + 51, 4 * TicksPerSecond + 52} =>
             (VoiceOne \div 5 <= Amplitude /\ Amplitude <= (3 * VoiceOne) \div 10)

\* C26: with looping off, a positive step and a callback that queues nothing,
\* the rendering loop of MakeWave reaches, for every file whose lines parse,
\* after finitely many getSample calls a state in which the queue is empty
\* and the callback has been invoked, and then ends.
C26_RenderEnds ==
    (wave.pc = "render" /\ ~looping /\ wave.step > 0)
       ~> (wave.pc = "exit" /\ wave.done /\ program = <<>>)

\* C26 witness: MakeWave has ended after more than one getSample call, with
\* the flag set by the callback and the queue empty
C26_Witness ==
    /\ wave.tool = "MakeWave"
    /\ wave.pc = "exit"
    /\ wave.status = 0
    /\ wave.done
    /\ wave.samples > 1
    /\ program = <<>>

\* a line that is neither empty nor a comment
Survives(line) == line # <<>> /\ Head(line) # "/"

\* C27: when a file is read, every line whose first character is '/' and every
\* empty line is skipped, and exactly the other lines, in the order of the
\* file, become the voices of one Maestro, whether or not the last line ends
\* with a newline.
C27_Original ==
    wave.pc # "start" =>
       /\ wave.voices = SelectSeq(wave.lines, Survives)
       /\ (wave.pc # "exit" /\ wave.samples = 0 /\ wave.status = 0) =>
             program = <<[Construct(SelectSeq(wave.lines, Survives),
                                    DefaultInstrument).maestro EXCEPT !.id = 1]>>

\* the notes whose play(now) was added to the last sample of the Voice
Summed == {voice.notes[heard.summed[k] + 1] : k \in 1..Len(heard.summed)}

\* C28: at every call Voice::play(t) with non-decreasing t, each note whose
\* play(t) is added to the sum has t inside its window [startTime, startTime
\* + duration + releaseLength]: no pending and no expired note contributes.
C28_Original ==
    \A note \in Summed : note.startTime <= now /\ now <= NoteEnd(note)

\* the envelope gain Note::play asks for at the time of the last call
GainAsked(note) ==
    EnvelopeLoud(note.instrument.envelope, now - note.startTime,
                 IF now - note.startTime < note.duration THEN -1 ELSE note.duration)

\* C29: the envelope gain is never negative: at every note time and release
\* time at which Voice::play evaluates a note's envelope, loud(time,
\* releaseTime) >= 0.
C29_Original ==
    \A note \in Summed : GainAsked(note) >= 0

\* the gain of the held note at the time of its release, divided by releaseLength
GainAtRelease ==
    EnvelopeGain(tone.envelope, tone.duration, -1) \div tone.envelope.releaseLength

\* C30: for the AR and the ADSR envelope, once a note is released at r, the
\* gain at every t in [r, r + releaseLength] is the unreleased gain at r times
\* (r + releaseLength - t) / releaseLength: a note released in its attack or
\* decay ramps down from the value it had at r.
C30_Original ==
    (tone.time >= tone.duration /\ tone.time # -1) =>
       tone.gain = GainAtRelease * (tone.duration + tone.envelope.releaseLength - tone.time)

\* C31: within a play session the cursor index of a Voice never decreases
\* across calls to play and never exceeds the number of notes; loop() sets
\* index to 0 and empties the active notes, which makes the Voice equal to a
\* newly constructed one (so it returns the same samples); finished() holds
\* iff index is the number of notes and no note is active.
C31_Session ==
    /\ [](voice.index \in 0..Len(voice.notes))
    /\ [](VoiceFinished(voice) <=>
             (voice.index = Len(voice.notes) /\ voice.activeNotes = <<>>))
    /\ [](now = -1 => voice = NewVoice(voice.notes))
    /\ [][/\ now' # -1 => voice'.index >= voice.index
          /\ now' = -1 => (voice'.index = 0 /\ voice'.activeNotes = <<>>
                              /\ voice'.notes = voice.notes)]_vars

\* C31 witness: a Voice of two notes has been played to its end: the cursor
\* is at 2, nothing is active, and loop() may be called
C31_Witness ==
    /\ Len(voice.notes) = 2
    /\ voice.index = 2
    /\ voice.activeNotes = <<>>
    /\ now > 0
    /\ VoiceFinished(voice)

\* the step read the command of the letter c with a number
Numbered(c) == Passed /\ Len(Consumed) > 1 /\ Consumed[1] = c /\ IsDigit(Consumed[2])

\* the step read a rest, or a note, with an explicit length
HasDigits(text) == Len(DigitsOf(text)) > 0
RestLength == Passed /\ Len(Consumed) > 1 /\ Consumed[1] \in {"P", "R"} /\ HasDigits(Consumed)
NoteLength == Passed /\ IsNote(Consumed) /\ HasDigits(Consumed)

\* C32: T n is accepted iff 16 <= n <= 256; L n, an explicit note length and
\* an explicit rest length iff 1 <= n <= 64; anything else is a parse error.
\* After each accepted T or L noteLength is 240 / (beatNote * tempo), so
\* noteLength is always positive and the cursor strictly increases with every
\* note that is not part of a chord, every N command and every rest.
C32_Original ==
    /\ [](parse.noteLength > 0)
    /\ [][ /\ Numbered("T") =>
               IF Given(Consumed, 16, 256)
               THEN /\ parse'.error = ""
                    /\ parse'.currentTempo = Spelled(Consumed, 1, 0)
                    /\ parse'.noteLength = (240 * TicksPerSecond)
                            \div (parse'.currentBeatNote * parse'.currentTempo)
               ELSE parse'.error # ""
           /\ Numbered("L") =>
               IF Given(Consumed, 1, 64)
               THEN /\ parse'.error = ""
                    /\ parse'.currentBeatNote = Spelled(Consumed, 1, 0)
                    /\ parse'.noteLength = (240 * TicksPerSecond)
                            \div (parse'.currentBeatNote * parse'.currentTempo)
               ELSE parse'.error # ""
           /\ (RestLength \/ NoteLength) =>
               (parse'.error = "" <=> Given(Consumed, 1, 64))
           /\ (/\ Passed /\ parse'.error = "" /\ Len(Consumed) > 0
               /\ \/ IsNote(Consumed) /\ Count(Consumed, {","}) = 0
                  \/ Consumed[1] \in {"N", "P", "R"}) =>
               parse'.time > parse.time ]_vars

\* the lines of a note with a suffix and a plain note after it
SuffixThenPlain ==
    {<<"C", "4", ".", ".", "C">>, <<"C", ".", "C">>, <<"C", "^", "C">>, <<"C", "'", "C">>,
     <<"C", "_", "C">>}

\* C33: the suffixes of a note (explicit length, dots, tie, staccato, accent)
\* act on that note only: the step that reads a note leaves the beat note,
\* noteLength, the articulation and the volume as they were, so that a plain
\* note after a note with suffixes is a note of the defaults in force.
C33_Suffixes ==
    /\ [][ (Passed /\ IsNote(Consumed)) =>
             /\ parse'.currentBeatNote = parse.currentBeatNote
             /\ parse'.currentTempo = parse.currentTempo
             /\ parse'.noteLength = parse.noteLength
             /\ parse'.articulation = parse.articulation
             /\ parse'.volume = parse.volume ]_vars
    /\ []( (parse.command.input \in SuffixThenPlain /\ done(parse.command)) =>
             /\ parse.error = ""
             /\ Len(parse.notes) = 2
             /\ parse.notes[2].duration * 8 = LengthOf(4, 120) * 7
             /\ parse.notes[2].volume = VolOne \div 2
             /\ parse.time = parse.notes[2].startTime + LengthOf(4, 120) )

\* C33 witness: "C^C" was read to its end: the first note is louder than the
\* default, the second is not, and the volume in force is the default
C33_Witness ==
    /\ parse.command.input = <<"C", "^", "C">>
    /\ done(parse.command)
    /\ Len(parse.notes) = 2
    /\ parse.notes[1].volume = VolOne \div 2 + VolOne \div 8
    /\ parse.notes[2].volume = VolOne \div 2
    /\ parse.volume = VolOne \div 2

\* the Voice of a line parsed on its own, and the Voices of the lines of a
\* song that have notes
Alone(line) == buildVoiceFromString(line, DefaultInstrument, StandardNotes).voice
HasNotes(v) == v.notes # <<>>
AloneChoir(music) == SelectSeq([k \in 1..Len(music) |-> Alone(music[k])], HasNotes)

\* C34: every line of a song is parsed from the same state (octave 4, beat
\* note 4, tempo 120, articulation 7/8, volume 0.5, cursor 0, the instrument
\* of the NUL key), whatever the lines before it have set: the notes of every
\* Voice of a Maestro are those of its line parsed on its own.
C34_Independent ==
    /\ \A k \in 1..Len(score) :
          LET st == ParserStart(score[k], DefaultInstrument)
          IN  /\ st.currentOctave = 4 /\ st.currentBeatNote = 4 /\ st.currentTempo = 120
              /\ st.articulation = 7 /\ st.volume * 2 = VolOne /\ st.time = 0
              /\ st.noteLength = LengthOf(4, 120)
              /\ st.instrument = DefaultInstrument[NUL]
    /\ score # <<>> =>
          /\ Len(solo.choir) = Len(AloneChoir(score))
          /\ \A k \in 1..Len(solo.choir) : solo.choir[k].notes = AloneChoir(score)[k].notes
    /\ score = SongB =>
          /\ solo.choir[1].notes[1].frequency = StandardNotes[5 * 12 + 7 + 1]
          /\ solo.choir[2].notes[1].frequency = StandardNotes[4 * 12 + 1]
          /\ solo.choir[2].notes[1].startTime = 0

\* C34 witness: the song of "T240L64 O5 G'" and "T240L64 C" is being played:
\* the second line's C is the C of octave 4 and starts at 0
C34_Witness ==
    /\ score = SongB
    /\ beat > 0
    /\ Len(solo.choir) = 2
    /\ solo.choir[2].notes[1].frequency = StandardNotes[4 * 12 + 1]
    /\ solo.choir[2].notes[1].startTime = 0

\* C35: the notes buildVoiceFromString has emitted are in the order of their
\* start times (equal for the notes of a chord), in every state of the parse
\* and so in the Voice returned, because no command moves the cursor back.
C35_Ordered ==
    /\ [](\A k \in 1..(Len(parse.notes) - 1) :
             parse.notes[k].startTime <= parse.notes[k + 1].startTime)
    /\ [](\A k \in 1..Len(parse.notes) : parse.notes[k].startTime <= parse.time)
    /\ [][parse'.time >= parse.time]_vars

\* C35 witness: "O3 A > A > A" was read to its end: three notes, each one
\* quarter after the one before
C35_Witness ==
    /\ parse.command.input = LineThreeAs
    /\ done(parse.command)
    /\ parse.error = ""
    /\ [k \in 1..Len(parse.notes) |-> parse.notes[k].startTime]
           = <<0, LengthOf(4, 120), 2 * LengthOf(4, 120)>>

\* the cursor of v divides its notes at the time t: the notes before it have
\* started by t, the notes from it on start after t
Divides(v, t) ==
    /\ \A k \in 1..v.index : v.notes[k].startTime <= t
    /\ \A k \in (v.index + 1)..Len(v.notes) : v.notes[k].startTime > t

\* the cursor and the notes activated by one more call of play, jump later
\* than the last one (Voice::play without endPlay)
PlayedLater(jump) ==
    LET time    == (IF now = -1 THEN 0 ELSE now) + jump
        skipped == [voice EXCEPT !.index = SkipPassed(voice.notes, voice.index, time)]
    IN  IF skipped.index = Len(skipped.notes) THEN skipped
        ELSE IF NoteBefore(skipped.notes[skipped.index + 1], time) THEN skipped
             ELSE Activate(skipped, time)

\* C36: after every Voice::play(t) of a Voice whose notes are in the order of
\* their start times, every note at a position from index on is pending
\* (it starts after t) and every note at a position before index has started
\* by t; so also after a call that comes so much later that whole notes are
\* skipped.
C36_Cursor ==
    /\ now # -1 => Divides(voice, now)
    /\ \A jump \in {0, 1, 40, 1100, 5000} :
          Divides(PlayedLater(jump), (IF now = -1 THEN 0 ELSE now) + jump)

\* C36 witness: "T120 L4 O4 C D E F" is played and the time is between the
\* starts of E and F: the cursor is at F, the one note that is pending
C36_Witness ==
    /\ voice.notes = ScaleNotes
    /\ now > ScaleNotes[3].startTime
    /\ now < ScaleNotes[4].startTime
    /\ voice.index = 3
    /\ PlayedLater(1100).index = 4

\* C37: buildVoiceFromString terminates on every finite line: every pass of
\* the main loop moves the reader on or throws, and the reader's location is
\* never beyond the length of the line, also when I X and its key are the
\* last thing on the line.
C37_Original ==
    /\ [](parse.command.location <= Len(parse.command.input))
    /\ [][\/ parse'.error # ""
          \/ parse'.crashed
          \/ parse'.command.location > parse.command.location]_vars

\* the active set of v holds no note twice, and only notes before the cursor
ActiveSetSound(v) ==
    /\ \A i, j \in 1..Len(v.activeNotes) : i # j => v.activeNotes[i] # v.activeNotes[j]
    /\ \A i \in 1..Len(v.activeNotes) : v.activeNotes[i] < v.index

\* C39: in every state the active set of a Voice holds no note twice, only
\* notes at positions before index, and only notes stored in that same Voice,
\* also when the Voice is a copy of a Voice that has been played.
C39_Original ==
    /\ ActiveSetSound(twin.original)
    /\ twin.made => (ActiveSetSound(twin.copy) /\ twin.foreign = 0)

\* the line without its white space and with its letters in upper case
Capital(c) ==
    IF \E i \in 1..Len(LowerCase) : LowerCase[i] = c
    THEN UpperCase[CHOOSE i \in 1..Len(LowerCase) : LowerCase[i] = c]
    ELSE c
Blank(c) == c \in {" ", "\t", "\n", "\r"}
Squeezed(line) ==
    LET kept == SelectSeq(line, LAMBDA c : ~Blank(c))
    IN  [i \in 1..Len(kept) |-> Capital(kept[i])]

\* the parser has left its loop: the line is read, or an error was thrown
Returned == parse.error # "" \/ done(parse.command)

\* C21: the case of the letters and the white space of a line do not matter:
\* the line gives the same notes, or the same parse error, as the line written
\* in upper case without any white space.
C21_CaseAndSpace ==
    (Returned /\ ~parse.crashed /\ ~parse.ub /\ Squeezed(setup.input) # setup.input) =>
       LET plain == ParseLoop(Entry(Squeezed(setup.input), setup.instruments, setup.pitches),
                              setup.instruments, setup.pitches)
       IN  /\ parse.error = plain.error
           /\ parse.error = "" => parse.notes = plain.notes /\ parse.time = plain.time

\* C21 witness: a line in lower case with white space inside a number and
\* before the suffixes was read to its end and gave its note
C21_Witness ==
    /\ setup.input = LineSpaced
    /\ done(parse.command)
    /\ parse.error = ""
    /\ parse.indices = <<48>>
    /\ parse.notes[1].duration * 32 = 3 * 7 * TicksPerSecond

-----------------------------------------------------------------------------
(* Properties of the two threads, under SpecConc.                           *)

\* C4: a clearQueue() request is never lost: when a getSample call that started
\* after clearQueue() returned has ended, none of the Maestros enqueued before
\* that clearQueue() is in the queue (in a behaviour in which the two threads
\* were never inside the list at once).
C4_Original ==
    (audio = "idle" /\ ~raced) => \A k \in 1..Len(program) : program[k].id \notin due

C5_Original ==
    ~(control = "insert" /\ AudioInside)
====
